---- MODULE Spec2Model ----
(***************************************************************************)
(* Server of the 30-day journaling application (Hono app over a key-value  *)
(* store, an identity provider and a payment processor), and the purchase  *)
(* status polling of its client.                                           *)
(*                                                                         *)
(* The state is the content of the key-value store (profile:<uid>,         *)
(* purchases:<uid>, journal:<uid>:<track>, prompts:<TRACK>), the accounts  *)
(* held by the identity provider, the payment intents held by the          *)
(* processor, and the polling state of the client.  Every HTTP handler is  *)
(* action: the request is handled to its response in one step (requests    *)
(* executed one at a time).  resp is the response to the last request.     *)
(* Timestamps (created_at, updated_at) are not modelled: no handler reads  *)
(* them in the profile.                                                    *)
(***************************************************************************)
EXTENDS Integers, Sequences, FiniteSets, TLC

VARIABLES
    accounts,   \* identity provider: the users that have an account
    profile,    \* kv "profile:<uid>": Absent, or Stored(profile record)
    purchases,  \* kv "purchases:<uid>": Absent, or Stored(list of track names)
    intents,    \* payment processor: list of payment intents, id = index
    granted,    \* history: <<user, track>> added by dev/grant-track
    confirmed,  \* history: <<user, id>>, a process-payment-intent call of user
                \* citing intent id returned success
    resp,       \* the response to the last request
    prompts,    \* kv "prompts:<TRACK>": Absent, or Stored(seed data)
    journal,    \* kv "journal:<uid>:<track>": Absent, or Stored(list of entries)
    clock,      \* the time new Date() returns to the journal handler
    saved,      \* history: the saves of journal entries that succeeded
    chains,     \* client: the polling chains started since the page was loaded
    url,        \* client: the query parameters of the page
    toast,      \* client: the last toast shown
    session,    \* client: the user of the identity provider's session, or NULL
    clientUser, \* client: user of AuthProvider: Absent (null), or Stored(object)
    clientProfile, \* client: profile of AuthProvider: Absent (null), or Stored
    posts,      \* client: the purchase requests sent since the page was loaded
    reloadTimer, \* client: setTimeout(() => window.location.reload(), 2000) pends
    reloading,  \* client: window.location.reload() was called
    bgCheck,    \* client: the timer of checkAuthInBackground is pending
    fetches,    \* network: the profile fetches of the client that are in flight
    reqs,       \* server: the requests whose store accesses interleave
    credited    \* history: <<user, track>> a request reported as credited

\* the keys of the store that the journal and admin endpoints write
journalVars == <<prompts, journal, clock, saved>>

\* the state of the client
clientVars == <<chains, url, toast, session, clientUser, clientProfile, posts,
                reloadTimer, reloading, bgCheck>>

\* the requests handled store access by store access
raceVars == <<reqs, credited>>

vars == <<accounts, profile, purchases, intents, granted, confirmed, resp,
          journalVars, clientVars, fetches, raceVars>>

----------------------------------------------------------------------------
(* Bounds of the model *)

\* cap on the day completions that succeed in the journey specification
MaxDone == 61
\* cap on the day completions that succeed in the payment specification
MaxDonePay == 1
\* cap on the day completions that succeed in the profile specification
MaxDonePut == 2
\* cap on the number of payment intents the processor holds
MaxIntents == 1

----------------------------------------------------------------------------
(* Values *)

Users == {"u1", "u2"}

\* JSON null (current_track of an idle profile)
NULL == "null"

\* the value of a kv key: Absent (kv.get returns nothing) or Stored(v)
Absent == <<>>
Stored(v) == <<v>>

\* ['Money', 'Relationships', 'Discipline', 'Ego']
ValidTracks == {"Money", "Relationships", "Discipline", "Ego"}

LastDay == 30

\* track names found in requests: two of the valid names and an invalid one
ReqTracks == {"Money", "Ego", "Stoicism"}

\* day numbers found in requests: the boundary values, and the days next to
\* the stored current day cur
ReqDays(cur) ==
    {0, 1, LastDay, LastDay + 1} \cup ({cur - 1, cur, cur + 1} \cap 0..(LastDay + 1))


\* a JS string as an element of tracks_completed (an element of the declared
\* type {track, completed_at, days_completed} would have type "object")
JsString(s) == [type |-> "string", value |-> s]

\* the profile written by signup and by lazy creation
DefaultProfile ==
    [current_track |-> NULL,
     current_day |-> 0,
     streak |-> 0,
     total_days_completed |-> 0,
     tracks_completed |-> <<>>,
     onboarding_completed |-> FALSE]

\* Array.prototype.includes on a list
Includes(list, x) == \E i \in 1..Len(list) : list[i] = x

\* value || []
ListOf(stored) == IF stored = Absent THEN <<>> ELSE stored[1]

\* kv.get(`purchases:${user.id}`) || []
PurchasesOrEmpty(u) == ListOf(purchases[u])

\* !trackName || ![...].includes(trackName)
InvalidTrack(t) == t \notin ValidTracks

\* !day || day < 1 || day > 30
InvalidDay(d) == d = 0 \/ d < 1 \/ d > LastDay

\* a response: the endpoint, the trackName of the request, the HTTP status,
\* the error of the body, the number of kv.set calls made, and trackCompleted;
\* body is the profile of the body and warning its warning, if it has one
Reply(op, track, status, error, sets, completed) ==
    [op |-> op, track |-> track, day |-> 0, status |-> status,
     error |-> error, kvSets |-> sets, trackCompleted |-> completed,
     body |-> Absent, warning |-> ""]

\* a response of POST /journal/complete-day, with the day of the request
DayReply(track, day, status, error, sets, completed) ==
    [Reply("completeDay", track, status, error, sets, completed) EXCEPT !.day = day]

NoReply == Reply("none", NULL, 0, "", 0, FALSE)

\* ['MONEY', 'RELATIONSHIPS', 'DISCIPLINE', 'EGO']
SeedTracks == {"MONEY", "RELATIONSHIPS", "DISCIPLINE", "EGO"}

\* the requests that are handled store access by store access
MaxRequests == 2
Requests == 1..MaxRequests

\* a request: its endpoint and arguments, the store access it is about to
\* make (pc), the value its last kv.get returned and its HTTP status
Request(op, u, t, d) ==
    [pc |-> "get", op |-> op, user |-> u, track |-> t, day |-> d,
     read |-> Absent, status |-> 0]

\* a request slot that holds no request
Free == [Request("none", NULL, NULL, 0) EXCEPT !.pc = "free"]

\* the query parameters of a page that was not reached by a payment redirect
NoParams ==
    [success |-> FALSE, canceled |-> FALSE, track |-> NULL, sessionId |-> "none",
     bundle |-> FALSE]

----------------------------------------------------------------------------
(* getUser *)

\* Authorization headers that do not start with 'Bearer ': no header at all,
\* and a header of another scheme
NoBearer == {"missing", "basic"}

\* the error getUser throws for an Authorization header, "" when it returns
GetUserError(auth) ==
    IF auth \in NoBearer THEN "Invalid authorization header"
    ELSE IF auth \notin accounts THEN "Unauthorized"
    ELSE ""

\* catch blocks of GET /user/profile and GET /purchases
AuthStatusChecked(err) == IF err = "Unauthorized" THEN 401 ELSE 500

----------------------------------------------------------------------------
Init ==
    /\ accounts = {}
    /\ profile = [u \in Users |-> Absent]
    /\ purchases = [u \in Users |-> Absent]
    /\ intents = <<>>
    /\ granted = {}
    /\ confirmed = {}
    /\ resp = NoReply
    /\ prompts = [id \in SeedTracks |-> Absent]
    /\ journal = [u \in Users |-> [t \in ValidTracks |-> Absent]]
    /\ clock = 0
    /\ saved = <<>>
    /\ chains = <<>>
    /\ url = NoParams
    /\ toast = ""
    /\ session = NULL
    /\ clientUser = Absent
    /\ clientProfile = Absent
    /\ posts = <<>>
    /\ reloadTimer = FALSE
    /\ reloading = FALSE
    /\ bgCheck = TRUE
    /\ fetches = <<>>
    /\ reqs = [r \in Requests |-> Free]
    /\ credited = {}

----------------------------------------------------------------------------
(* POST /auth/signup *)

\* fieldsOk: email, password and fullName are all present
\* kvFail: "none", or the kv.set that throws ("profile", "purchases")
Signup(u, fieldsOk, kvFail) ==
    /\ UNCHANGED <<intents, granted, confirmed>>
    /\ UNCHANGED <<journalVars, clientVars>>
    /\ UNCHANGED <<raceVars, fetches>>
    /\ IF ~fieldsOk
       THEN /\ resp' = Reply("signup", NULL, 400,
                             "Email, password, and full name are required", 0, FALSE)
            /\ UNCHANGED <<accounts, profile, purchases>>
       ELSE IF u \in accounts
       THEN /\ resp' = Reply("signup", NULL, 422, "email_exists", 0, FALSE)
            /\ UNCHANGED <<accounts, profile, purchases>>
       ELSE /\ accounts' = accounts \cup {u}
            /\ profile' = IF kvFail = "profile" THEN profile
                          ELSE [profile EXCEPT ![u] = Stored(DefaultProfile)]
            /\ purchases' = IF kvFail = "none"
                            THEN [purchases EXCEPT ![u] = Stored(<<>>)]
                            ELSE purchases
            /\ resp' = IF kvFail = "none"
                       THEN Reply("signup", NULL, 200, "", 2, FALSE)
                       ELSE Reply("signup", NULL, 500,
                                  "User created but profile setup failed",
                                  IF kvFail = "profile" THEN 0 ELSE 1, FALSE)

----------------------------------------------------------------------------
(* GET /user/profile *)

\* variant: the purchase list is never initialised
LazyPurchases_Never(stored) == stored

\* variant: the purchase list is initialised without the existence check
LazyPurchases_Reset(stored) == Stored(<<>>)

\* if (!existingPurchases) kv.set(`purchases:${user.id}`, [])
LazyPurchases(stored) == IF stored = Absent THEN Stored(<<>>) ELSE stored

\* where the store fails while the request is handled: nowhere, at the
\* kv.get of the profile, at the kv.set of the profile, or at the purchases
\* key after the profile was written
ProfileKvFailures == {"none", "get", "setProfile", "purchases"}

\* variant: the profile shown when the read fails is on day 1
FallbackProfile_DayOne ==
    [current_track |-> NULL,
     current_day |-> 1,
     streak |-> 0,
     total_days_completed |-> 0,
     tracks_completed |-> <<>>,
     onboarding_completed |-> FALSE]

\* the profile returned when kv.get of the profile throws
FallbackProfile ==
    [current_track |-> NULL,
     current_day |-> 0,
     streak |-> 0,
     total_days_completed |-> 0,
     tracks_completed |-> <<>>,
     onboarding_completed |-> FALSE]

\* the success response of GET /user/profile
ProfileReply(p, sets, warning) ==
    [Reply("getProfile", NULL, 200, "", sets, FALSE)
        EXCEPT !.body = Stored(p), !.warning = warning]

\* the handler; the profile fetches of the client that are in flight are
\* left to the action that runs it
ProfileHandler(auth, kvFail) ==
    LET err == GetUserError(auth) IN
    /\ UNCHANGED <<accounts, intents, granted, confirmed>>
    /\ UNCHANGED <<journalVars, clientVars>>
    /\ UNCHANGED raceVars
    /\ IF err # ""
       THEN /\ resp' = Reply("getProfile", NULL, AuthStatusChecked(err),
                             err, 0, FALSE)
            /\ UNCHANGED <<profile, purchases>>
       ELSE IF kvFail = "get"
       THEN /\ resp' = ProfileReply(FallbackProfile, 0,
                   "Database temporarily unavailable - showing default profile")
            /\ UNCHANGED <<profile, purchases>>
       ELSE IF profile[auth] = Absent
       THEN \* create the default profile; purchases only if not stored yet;
            \* a failure of the store is logged and the response is the same
            /\ profile' = IF kvFail = "setProfile" THEN profile
                          ELSE [profile EXCEPT ![auth] = Stored(DefaultProfile)]
            /\ purchases' = IF kvFail = "none"
                            THEN [purchases EXCEPT ![auth] = LazyPurchases(@)]
                            ELSE purchases
            /\ resp' = ProfileReply(DefaultProfile,
                            CASE kvFail = "setProfile" -> 0
                              [] kvFail = "purchases" -> 1
                              [] OTHER -> IF purchases[auth] = Absent THEN 2 ELSE 1,
                            "")
       ELSE /\ resp' = ProfileReply(profile[auth][1], 0, "")
            /\ UNCHANGED <<profile, purchases>>

\* a request that is not a profile fetch of the modelled client
GetProfile(auth, kvFail) ==
    /\ ProfileHandler(auth, kvFail)
    /\ UNCHANGED fetches

----------------------------------------------------------------------------
(* PUT /user/profile *)

\* { ...currentProfile, ...updates }: a field of updates replaces the stored one
MergeProfile(p, updates) ==
    [f \in DOMAIN p |-> IF f \in DOMAIN updates THEN updates[f] ELSE p[f]]

\* request bodies of PUT /user/profile
PutUpdates ==
    {[onboarding_completed |-> TRUE],
     [current_day |-> LastDay],
     [current_track |-> NULL]}

PutProfile(auth, updates) ==
    LET err == GetUserError(auth) IN
    /\ UNCHANGED <<accounts, purchases, intents, granted, confirmed>>
    /\ UNCHANGED <<journalVars, clientVars>>
    /\ UNCHANGED <<raceVars, fetches>>
    /\ IF err # ""
       THEN /\ resp' = Reply("putProfile", NULL, 500,
                             "Failed to update profile", 0, FALSE)
            /\ UNCHANGED profile
       ELSE IF profile[auth] = Absent
       THEN /\ resp' = Reply("putProfile", NULL, 404, "Profile not found",
                             0, FALSE)
            /\ UNCHANGED profile
       ELSE /\ profile' = [profile EXCEPT ![auth] = Stored(MergeProfile(@[1], updates))]
            /\ resp' = Reply("putProfile", NULL, 200, "", 1, FALSE)

----------------------------------------------------------------------------
(* GET /purchases *)

\* The stored value is absent or a list (every kv.set of the key writes a
\* list), so the !Array.isArray branch is never taken.
GetPurchases(auth) ==
    LET err == GetUserError(auth) IN
    /\ UNCHANGED <<accounts, profile, purchases, intents, granted, confirmed>>
    /\ UNCHANGED <<journalVars, clientVars>>
    /\ UNCHANGED <<raceVars, fetches>>
    /\ IF err # ""
       THEN resp' = Reply("getPurchases", NULL, AuthStatusChecked(err),
                          err, 0, FALSE)
       ELSE resp' = Reply("getPurchases", NULL, 200, "", 0, FALSE)

----------------------------------------------------------------------------
(* POST /dev/grant-track *)

\* purchases.push(trackName)
AddPurchase(list, t) == Append(list, t)

GrantTrack(auth, t) ==
    LET err == GetUserError(auth)
        list == PurchasesOrEmpty(auth)
    IN
    /\ UNCHANGED <<accounts, profile, intents, confirmed>>
    /\ UNCHANGED <<journalVars, clientVars>>
    /\ UNCHANGED <<raceVars, fetches>>
    /\ IF err # ""
       THEN /\ resp' = Reply("grantTrack", t, 500, "Dev grant failed", 0, FALSE)
            /\ UNCHANGED <<purchases, granted>>
       ELSE IF InvalidTrack(t)
       THEN /\ resp' = Reply("grantTrack", t, 400, "Invalid track name", 0, FALSE)
            /\ UNCHANGED <<purchases, granted>>
       ELSE IF Includes(list, t)
       THEN /\ resp' = Reply("grantTrack", t, 200, "", 0, FALSE)
            /\ UNCHANGED <<purchases, granted>>
       ELSE /\ purchases' = [purchases EXCEPT ![auth] = Stored(AddPurchase(list, t))]
            /\ granted' = granted \cup {<<auth, t>>}
            /\ resp' = Reply("grantTrack", t, 200, "", 1, FALSE)

----------------------------------------------------------------------------
(* POST /journal/start-track *)

\* variant: only an empty purchase list is refused
NotPurchased_AnyPurchase(list, t) == Len(list) = 0

\* !purchases.includes(trackName)
NotPurchased(list, t) == ~Includes(list, t)

\* variant: starting a track resets the streak
StartedProfile_ResetsStreak(p, t) ==
    [p EXCEPT !.current_track = t, !.current_day = 1, !.streak = 0]

\* variant: the day is not reset
StartedProfile_KeepsDay(p, t) == [p EXCEPT !.current_track = t]

\* { ...profile, current_track: trackName, current_day: 1 }
StartedProfile(p, t) == [p EXCEPT !.current_track = t, !.current_day = 1]

StartTrack(auth, t) ==
    LET err == GetUserError(auth) IN
    /\ UNCHANGED <<accounts, purchases, intents, granted, confirmed>>
    /\ UNCHANGED <<journalVars, clientVars>>
    /\ UNCHANGED <<raceVars, fetches>>
    /\ IF err # ""
       THEN /\ resp' = Reply("startTrack", t, 500, "Failed to start track",
                             0, FALSE)
            /\ UNCHANGED profile
       ELSE IF InvalidTrack(t)
       THEN /\ resp' = Reply("startTrack", t, 400, "Invalid track name", 0, FALSE)
            /\ UNCHANGED profile
       ELSE IF NotPurchased(PurchasesOrEmpty(auth), t)
       THEN /\ resp' = Reply("startTrack", t, 400, "Track not purchased", 0, FALSE)
            /\ UNCHANGED profile
       ELSE IF profile[auth] = Absent
       THEN /\ resp' = Reply("startTrack", t, 404, "Profile not found", 0, FALSE)
            /\ UNCHANGED profile
       ELSE /\ profile' = [profile EXCEPT ![auth] = Stored(StartedProfile(@[1], t))]
            /\ resp' = Reply("startTrack", t, 200, "", 1, FALSE)

----------------------------------------------------------------------------
(* POST /journal/complete-day *)

\* variant: a profile without an active track passes the track check
NotCurrentTrack_NullPasses(p, t) == p.current_track # NULL /\ p.current_track # t

\* profile.current_track !== trackName
NotCurrentTrack(p, t) == p.current_track # t

\* variant: a day before the current one is let through
NotCurrentDay_StaleAccepted(p, d) == p.current_day < d

\* profile.current_day !== day
NotCurrentDay(p, d) == p.current_day # d

\* variant: the track is pushed without the includes check
AddCompleted_AlwaysPush(list, t) == Append(list, JsString(t))

\* if (!completedTracks.includes(trackName)) completedTracks.push(trackName)
AddCompleted(list, t) ==
    IF Includes(list, JsString(t)) THEN list ELSE Append(list, JsString(t))

\* variant: the completion of a track does not count for the streak
CompletedProfile_KeepsStreak(p, t) ==
    [p EXCEPT !.current_track = NULL,
              !.current_day = 0,
              !.total_days_completed = @ + 1,
              !.tracks_completed = AddCompleted(@, t)]

\* the profile written when day >= 30
CompletedProfile(p, t) ==
    [p EXCEPT !.current_track = NULL,
              !.current_day = 0,
              !.total_days_completed = @ + 1,
              !.tracks_completed = AddCompleted(@, t),
              !.streak = @ + 1]

\* variant: a day before the last one counts for the streak only
NextDayProfile_StreakOnly(p, d) ==
    [p EXCEPT !.current_day = d + 1,
              !.streak = @ + 1]

\* variant: the next day is skipped
NextDayProfile_SkipsDay(p, d) ==
    [p EXCEPT !.current_day = d + 2,
              !.total_days_completed = @ + 1,
              !.streak = @ + 1]

\* the profile written when day < 30
NextDayProfile(p, d) ==
    [p EXCEPT !.current_day = d + 1,
              !.total_days_completed = @ + 1,
              !.streak = @ + 1]

CompleteDay(auth, t, d) ==
    LET err == GetUserError(auth) IN
    /\ UNCHANGED <<accounts, purchases, intents, granted, confirmed>>
    /\ UNCHANGED <<journalVars, clientVars>>
    /\ UNCHANGED <<raceVars, fetches>>
    /\ IF err # ""
       THEN /\ resp' = DayReply(t, d, 500, "Failed to complete day",
                             0, FALSE)
            /\ UNCHANGED profile
       ELSE IF InvalidTrack(t)
       THEN /\ resp' = DayReply(t, d, 400, "Invalid track name", 0, FALSE)
            /\ UNCHANGED profile
       ELSE IF InvalidDay(d)
       THEN /\ resp' = DayReply(t, d, 400, "Invalid day number", 0, FALSE)
            /\ UNCHANGED profile
       ELSE IF profile[auth] = Absent
       THEN /\ resp' = DayReply(t, d, 404, "Profile not found", 0, FALSE)
            /\ UNCHANGED profile
       ELSE IF NotCurrentTrack(profile[auth][1], t)
       THEN /\ resp' = DayReply(t, d, 400,
                             "Not the current active track", 0, FALSE)
            /\ UNCHANGED profile
       ELSE IF NotCurrentDay(profile[auth][1], d)
       THEN /\ resp' = DayReply(t, d, 400, "Not the current day",
                             0, FALSE)
            /\ UNCHANGED profile
       ELSE IF d >= LastDay
       THEN /\ profile' = [profile EXCEPT ![auth] = Stored(CompletedProfile(@[1], t))]
            /\ resp' = DayReply(t, d, 200, "", 1, TRUE)
       ELSE /\ profile' = [profile EXCEPT ![auth] = Stored(NextDayProfile(@[1], d))]
            /\ resp' = DayReply(t, d, 200, "", 1, FALSE)

\* CompleteDay, with at most max successful completions per profile
CompleteDayUpTo(auth, t, d, max) ==
    /\ CompleteDay(auth, t, d)
    /\ resp'.status = 200 => profile[auth][1].total_days_completed < max

\* current_day of u, 0 without a profile
CurrentDay(u) ==
    IF u \in Users /\ profile[u] # Absent THEN profile[u][1].current_day ELSE 0

----------------------------------------------------------------------------
(* POST /payments/create-intent *)

\* variant: the metadata does not name the requesting user
NewIntent_NoUser(u, t) ==
    [user_id |-> NULL, track_name |-> t, status |-> "requires_payment_method"]

\* stripe.paymentIntents.create({ metadata: { user_id, track_name } })
NewIntent(u, t) ==
    [user_id |-> u, track_name |-> t, status |-> "requires_payment_method"]

CreateIntent(auth, t) ==
    LET err == GetUserError(auth) IN
    /\ UNCHANGED <<accounts, profile, purchases, granted, confirmed>>
    /\ UNCHANGED <<journalVars, clientVars>>
    /\ UNCHANGED <<raceVars, fetches>>
    /\ IF err # ""
       THEN /\ resp' = Reply("createIntent", t, 500,
                             "Failed to create payment intent", 0, FALSE)
            /\ UNCHANGED intents
       ELSE IF InvalidTrack(t)
       THEN /\ resp' = Reply("createIntent", t, 400, "Invalid track name",
                             0, FALSE)
            /\ UNCHANGED intents
       ELSE IF Includes(PurchasesOrEmpty(auth), t)
       THEN /\ resp' = Reply("createIntent", t, 400, "Track already purchased",
                             0, FALSE)
            /\ UNCHANGED intents
       ELSE /\ intents' = Append(intents, NewIntent(auth, t))
            /\ resp' = Reply("createIntent", t, 200, "", 0, FALSE)

----------------------------------------------------------------------------
(* Payment processor: the payer completes the payment of intent i *)

PaymentSucceeds(i) ==
    /\ i \in 1..Len(intents)
    /\ intents[i].status = "requires_payment_method"
    /\ intents' = [intents EXCEPT ![i].status = "succeeded"]
    /\ UNCHANGED <<accounts, profile, purchases, granted, confirmed, resp>>
    /\ UNCHANGED <<journalVars, clientVars>>
    /\ UNCHANGED <<raceVars, fetches>>

----------------------------------------------------------------------------
(* POST /payments/process-payment-intent *)

\* paymentIntentId of a request: 0 when the body carries none, otherwise an
\* id; stripe.paymentIntents.retrieve throws for an id the processor lacks
NoIntentId == 0

\* paymentIntent.status !== 'succeeded'
NotSucceeded(pi) == pi.status # "succeeded"

\* variant: the track is pushed without the includes check
TrackOwned_Never(list, t) == FALSE

\* purchases.includes(trackName), before the track is added
TrackOwned(list, t) == Includes(list, t)

\* variant: only the track of the metadata is compared
MetadataMismatch_TrackOnly(pi, u, t) == pi.track_name # t

\* metadata.user_id !== user.id || metadata.track_name !== trackName
MetadataMismatch(pi, u, t) == pi.user_id # u \/ pi.track_name # t

ProcessPaymentIntent(auth, id, t) ==
    LET err == GetUserError(auth)
        list == PurchasesOrEmpty(auth)
    IN
    /\ UNCHANGED <<accounts, profile, intents, granted>>
    /\ UNCHANGED <<journalVars, clientVars>>
    /\ UNCHANGED <<raceVars, fetches>>
    /\ IF err # ""
       THEN /\ resp' = Reply("processPaymentIntent", t, 500,
                             "Payment processing failed", 0, FALSE)
            /\ UNCHANGED <<purchases, confirmed>>
       ELSE IF InvalidTrack(t)
       THEN /\ resp' = Reply("processPaymentIntent", t, 400,
                             "Invalid track name", 0, FALSE)
            /\ UNCHANGED <<purchases, confirmed>>
       ELSE IF id = NoIntentId
       THEN /\ resp' = Reply("processPaymentIntent", t, 400,
                             "Payment intent ID required", 0, FALSE)
            /\ UNCHANGED <<purchases, confirmed>>
       ELSE IF id \notin 1..Len(intents)
       THEN /\ resp' = Reply("processPaymentIntent", t, 400,
                             "Payment verification failed", 0, FALSE)
            /\ UNCHANGED <<purchases, confirmed>>
       ELSE IF NotSucceeded(intents[id])
       THEN /\ resp' = Reply("processPaymentIntent", t, 400,
                             "Payment not completed", 0, FALSE)
            /\ UNCHANGED <<purchases, confirmed>>
       ELSE IF MetadataMismatch(intents[id], auth, t)
       THEN /\ resp' = Reply("processPaymentIntent", t, 400,
                             "Payment intent metadata mismatch", 0, FALSE)
            /\ UNCHANGED <<purchases, confirmed>>
       ELSE IF ~TrackOwned(list, t)
       THEN /\ purchases' = [purchases EXCEPT ![auth] = Stored(AddPurchase(list, t))]
            /\ confirmed' = confirmed \cup {<<auth, id>>}
            /\ resp' = Reply("processPaymentIntent", t, 200, "", 1, FALSE)
       ELSE /\ confirmed' = confirmed \cup {<<auth, id>>}
            /\ resp' = Reply("processPaymentIntent", t, 200, "", 0, FALSE)
            /\ UNCHANGED purchases

----------------------------------------------------------------------------
(* POST /admin/seed-prompts *)

\* the number of days a seed must hold
SeedDays == 30

\* request bodies: the track_id, the length of the days array (0 when the
\* body has no days array) and whether every day has the required fields
SeedBodies ==
    [track_id : {"MONEY", "EGO", "Money"},
     days : {0, SeedDays - 1, SeedDays},
     complete : BOOLEAN]

\* the handler does not call getUser: the Authorization header is not read
SeedPrompts(auth, data) ==
    /\ UNCHANGED <<accounts, profile, purchases, intents, granted, confirmed>>
    /\ UNCHANGED <<journal, clock, saved, clientVars>>
    /\ UNCHANGED <<raceVars, fetches>>
    /\ IF data.track_id \notin SeedTracks
       THEN /\ resp' = Reply("seedPrompts", data.track_id, 400,
                             "Invalid track_id", 0, FALSE)
            /\ UNCHANGED prompts
       ELSE IF data.days # SeedDays
       THEN /\ resp' = Reply("seedPrompts", data.track_id, 400,
                             "Days array must contain exactly 30 days", 0, FALSE)
            /\ UNCHANGED prompts
       ELSE IF ~data.complete
       THEN /\ resp' = Reply("seedPrompts", data.track_id, 400,
                             "Day is missing required fields", 0, FALSE)
            /\ UNCHANGED prompts
       ELSE /\ prompts' = [prompts EXCEPT ![data.track_id] = Stored(data)]
            /\ resp' = Reply("seedPrompts", data.track_id, 200, "", 1, FALSE)

----------------------------------------------------------------------------
(* GET /prompts/:trackName *)

\* trackName.toUpperCase() on the names found in requests
ToUpperCase(t) ==
    CASE t = "Money" -> "MONEY"
      [] t = "Ego" -> "EGO"
      [] t = "Stoicism" -> "STOICISM"
      [] OTHER -> t

GetPrompts(auth, t) ==
    LET err == GetUserError(auth) IN
    /\ UNCHANGED <<accounts, profile, purchases, intents, granted, confirmed>>
    /\ UNCHANGED <<journalVars, clientVars>>
    /\ UNCHANGED <<raceVars, fetches>>
    /\ IF err # ""
       THEN resp' = Reply("getPrompts", t, 500, "Failed to fetch track prompts",
                          0, FALSE)
       ELSE IF ToUpperCase(t) \notin SeedTracks
       THEN resp' = Reply("getPrompts", t, 400, "Invalid track name", 0, FALSE)
       ELSE IF prompts[ToUpperCase(t)] = Absent
       THEN resp' = Reply("getPrompts", t, 404, "Track prompts not found",
                          0, FALSE)
       ELSE resp' = Reply("getPrompts", t, 200, "", 0, FALSE)

----------------------------------------------------------------------------
(* GET /journal/entries/:trackName *)

GetEntries(auth, t) ==
    LET err == GetUserError(auth) IN
    /\ UNCHANGED <<accounts, profile, purchases, intents, granted, confirmed>>
    /\ UNCHANGED <<journalVars, clientVars>>
    /\ UNCHANGED <<raceVars, fetches>>
    /\ IF err # ""
       THEN resp' = Reply("getEntries", t, 500, "Failed to fetch journal entries",
                          0, FALSE)
       ELSE IF InvalidTrack(t)
       THEN resp' = Reply("getEntries", t, 400, "Invalid track name", 0, FALSE)
       ELSE resp' = Reply("getEntries", t, 200, "", 0, FALSE)

----------------------------------------------------------------------------
(* POST /journal/entry *)

\* a text is a sequence of characters; these are white space
Whitespace == {" ", "\n"}

\* String.prototype.trim: white space is removed from both ends
RECURSIVE TrimStart(_)
TrimStart(txt) ==
    IF txt # <<>> /\ Head(txt) \in Whitespace THEN TrimStart(Tail(txt)) ELSE txt

RECURSIVE TrimEnd(_)
TrimEnd(txt) ==
    IF txt # <<>> /\ txt[Len(txt)] \in Whitespace
    THEN TrimEnd(SubSeq(txt, 1, Len(txt) - 1))
    ELSE txt

Trim(txt) == TrimEnd(TrimStart(txt))

\* variant: a text of white space only is accepted
EmptyText_NoTrim(txt) == Len(txt) = 0

\* !entryText || entryText.trim().length === 0
EmptyText(txt) == Len(txt) = 0 \/ Len(Trim(txt)) = 0

\* entryText of the requests: none, white space only, padded, plain
EntryTexts == {<<>>, <<" ", "\n">>, <<" ", "a", " ">>, <<"b">>}

\* day numbers of the requests
EntryDays == {0, 1, LastDay, LastDay + 1}

\* entries.findIndex(entry => entry.day === day), 0 when there is none
FindIndex(entries, d) ==
    IF \E i \in 1..Len(entries) : entries[i].day = d
    THEN CHOOSE i \in 1..Len(entries) :
            /\ entries[i].day = d
            /\ \A j \in 1..(i - 1) : entries[j].day # d
    ELSE 0

\* variant: the entry is always pushed
Upsert_AlwaysPush(entries, idx, entryData) == Append(entries, entryData)

\* entries[existingEntryIndex] = entryData, or entries.push(entryData)
Upsert(entries, idx, entryData) ==
    IF idx > 0 THEN [entries EXCEPT ![idx] = entryData]
    ELSE Append(entries, entryData)

\* the response of POST /journal/entry, with the day of the request
EntryReply(t, d, status, error, sets) ==
    [Reply("saveEntry", t, status, error, sets, FALSE) EXCEPT !.day = d]

SaveEntry(auth, t, d, txt) ==
    LET err == GetUserError(auth)
        entries == ListOf(journal[auth][t])
        idx == FindIndex(entries, d)
        now == clock + 1
        entryData == [day |-> d,
                      entry_text |-> Trim(txt),
                      created_at |-> IF idx > 0 THEN entries[idx].created_at ELSE now,
                      updated_at |-> now]
    IN
    /\ UNCHANGED <<accounts, profile, purchases, intents, granted, confirmed>>
    /\ UNCHANGED <<prompts, clientVars>>
    /\ UNCHANGED <<raceVars, fetches>>
    /\ IF err # ""
       THEN /\ resp' = EntryReply(t, d, 500, "Failed to save journal entry", 0)
            /\ UNCHANGED <<journal, clock, saved>>
       ELSE IF InvalidTrack(t)
       THEN /\ resp' = EntryReply(t, d, 400, "Invalid track name", 0)
            /\ UNCHANGED <<journal, clock, saved>>
       ELSE IF InvalidDay(d)
       THEN /\ resp' = EntryReply(t, d, 400, "Invalid day number", 0)
            /\ UNCHANGED <<journal, clock, saved>>
       ELSE IF EmptyText(txt)
       THEN /\ resp' = EntryReply(t, d, 400, "Entry text is required", 0)
            /\ UNCHANGED <<journal, clock, saved>>
       ELSE /\ journal' = [journal EXCEPT ![auth][t] = Stored(Upsert(entries, idx, entryData))]
            /\ clock' = now
            /\ saved' = Append(saved, [user |-> auth, track |-> t, day |-> d,
                                       text |-> txt, at |-> now])
            /\ resp' = EntryReply(t, d, 200, "", 1)

\* SaveEntry, with at most max saves that succeed
SaveEntryUpTo(auth, t, d, txt, max) ==
    /\ SaveEntry(auth, t, d, txt)
    /\ resp'.status = 200 => clock < max

----------------------------------------------------------------------------
(* Requests whose store accesses interleave.  The server keeps no lock:  *)
(* each await kv.get and each await kv.set of a handler is a step of its    *)
(* own, and the steps of the requests in the slots interleave freely.  The  *)
(* code between two store accesses runs without interruption.  Only         *)
(* requests that pass getUser and the validation of their body are placed   *)
(* in a slot; resp is not written by these requests.                        *)

\* track names of the interleaved requests
RaceTracks == {"Money", "Ego"}

\* the endpoints that add a track to the purchase list
CreditOps == {"processPaymentIntent", "grantTrack"}

\* stripe.paymentIntents.retrieve has returned a succeeded intent whose
\* metadata names the user and the track
VerifiedIntent(u, t) ==
    \E id \in 1..Len(intents) :
       ~NotSucceeded(intents[id]) /\ ~MetadataMismatch(intents[id], u, t)

\* the request in slot r ends with the given status
Finish(r, status) == [reqs EXCEPT ![r].pc = "done", ![r].status = status]

\* a request arrives and is authenticated; dev/grant-track with a name
\* that is not a track ends with 400 before any store access
Arrive(r, op, u, t, d) ==
    /\ reqs[r].pc = "free"
    /\ u \in accounts
    /\ op = "processPaymentIntent" => VerifiedIntent(u, t)
    /\ reqs' = [reqs EXCEPT ![r] =
                   IF op = "grantTrack" /\ InvalidTrack(t)
                   THEN [Request(op, u, t, d) EXCEPT !.pc = "done", !.status = 400]
                   ELSE Request(op, u, t, d)]
    /\ UNCHANGED <<accounts, profile, purchases, intents, granted, confirmed, resp>>
    /\ UNCHANGED <<journalVars, clientVars, fetches, credited>>

\* complete-day: kv.get of the profile and the guards on what it returned
CompleteDayGet(r) ==
    LET q == reqs[r] IN
    /\ q.pc = "get" /\ q.op = "completeDay"
    /\ reqs' = IF profile[q.user] = Absent THEN Finish(r, 404)
               ELSE IF \/ NotCurrentTrack(profile[q.user][1], q.track)
                       \/ NotCurrentDay(profile[q.user][1], q.day)
               THEN Finish(r, 400)
               ELSE [reqs EXCEPT ![r].pc = "set", ![r].read = profile[q.user]]
    /\ UNCHANGED <<accounts, profile, purchases, intents, granted, confirmed, resp>>
    /\ UNCHANGED <<journalVars, clientVars, fetches, credited>>

\* variant: the profile is read again when it is written
WrittenProfile_ReadAgain(stored, read, t, d) ==
    IF d >= LastDay THEN CompletedProfile(stored[1], t)
    ELSE NextDayProfile(stored[1], d)

\* the profile complete-day writes: the profile it read, with the day
\* counted; the stored profile is not looked at again
WrittenProfile(stored, read, t, d) ==
    IF d >= LastDay THEN CompletedProfile(read[1], t)
    ELSE NextDayProfile(read[1], d)

\* complete-day: kv.set of the profile computed from the profile that was read
CompleteDaySet(r) ==
    LET q == reqs[r] IN
    /\ q.pc = "set" /\ q.op = "completeDay"
    /\ profile' = [profile EXCEPT ![q.user] =
                      Stored(WrittenProfile(@, q.read, q.track, q.day))]
    /\ reqs' = Finish(r, 200)
    /\ UNCHANGED <<accounts, purchases, intents, granted, confirmed, resp>>
    /\ UNCHANGED <<journalVars, clientVars, fetches, credited>>

\* process-payment-intent and dev/grant-track: kv.get of the purchase list;
\* a track that is in it is reported as owned
CreditGet(r) ==
    LET q == reqs[r]
        list == PurchasesOrEmpty(q.user)
    IN
    /\ q.pc = "get" /\ q.op \in CreditOps
    /\ IF TrackOwned(list, q.track)
       THEN /\ reqs' = Finish(r, 200)
            /\ credited' = credited \cup {<<q.user, q.track>>}
       ELSE /\ reqs' = [reqs EXCEPT ![r].pc = "set", ![r].read = Stored(list)]
            /\ UNCHANGED credited
    /\ UNCHANGED <<accounts, profile, purchases, intents, granted, confirmed, resp>>
    /\ UNCHANGED <<journalVars, clientVars, fetches>>

\* variant: the track is pushed on the list that is stored at the time of
\* the write
CreditedList_PushStored(stored, read, t) == AddPurchase(ListOf(stored), t)

\* purchases.push(trackName) on the list that was read; the stored list
\* is not looked at again
CreditedList(stored, read, t) == AddPurchase(ListOf(read), t)

\* process-payment-intent and dev/grant-track: kv.set of the list that was
\* read, with the track pushed, and the success response
CreditSet(r) ==
    LET q == reqs[r] IN
    /\ q.pc = "set" /\ q.op \in CreditOps
    /\ purchases' = [purchases EXCEPT ![q.user] =
                        Stored(CreditedList(@, q.read, q.track))]
    /\ reqs' = Finish(r, 200)
    /\ credited' = credited \cup {<<q.user, q.track>>}
    /\ UNCHANGED <<accounts, profile, intents, granted, confirmed, resp>>
    /\ UNCHANGED <<journalVars, clientVars, fetches>>

\* GET /user/profile: kv.get of the profile
LazyGetProfile(r) ==
    LET q == reqs[r] IN
    /\ q.pc = "get" /\ q.op = "getProfile"
    /\ reqs' = IF profile[q.user] # Absent THEN Finish(r, 200)
               ELSE [reqs EXCEPT ![r].pc = "setProfile"]
    /\ UNCHANGED <<accounts, profile, purchases, intents, granted, confirmed, resp>>
    /\ UNCHANGED <<journalVars, clientVars, fetches, credited>>

\* GET /user/profile: kv.set of the default profile
LazySetProfile(r) ==
    LET q == reqs[r] IN
    /\ q.pc = "setProfile"
    /\ profile' = [profile EXCEPT ![q.user] = Stored(DefaultProfile)]
    /\ reqs' = [reqs EXCEPT ![r].pc = "getPurchases"]
    /\ UNCHANGED <<accounts, purchases, intents, granted, confirmed, resp>>
    /\ UNCHANGED <<journalVars, clientVars, fetches, credited>>

\* GET /user/profile: kv.get of the purchase list (existingPurchases)
LazyGetPurchases(r) ==
    LET q == reqs[r] IN
    /\ q.pc = "getPurchases"
    /\ reqs' = IF purchases[q.user] # Absent THEN Finish(r, 200)
               ELSE [reqs EXCEPT ![r].pc = "setPurchases", ![r].read = purchases[q.user]]
    /\ UNCHANGED <<accounts, profile, purchases, intents, granted, confirmed, resp>>
    /\ UNCHANGED <<journalVars, clientVars, fetches, credited>>

\* GET /user/profile: kv.set of the empty purchase list, decided on what
\* was read
LazySetPurchases(r) ==
    LET q == reqs[r] IN
    /\ q.pc = "setPurchases"
    /\ purchases' = [purchases EXCEPT ![q.user] = LazyPurchases(q.read)]
    /\ reqs' = Finish(r, 200)
    /\ UNCHANGED <<accounts, profile, intents, granted, confirmed, resp>>
    /\ UNCHANGED <<journalVars, clientVars, fetches, credited>>

\* the response of a finished request is delivered
Leave(r) ==
    /\ reqs[r].pc = "done"
    /\ reqs' = [reqs EXCEPT ![r] = Free]
    /\ UNCHANGED <<accounts, profile, purchases, intents, granted, confirmed, resp>>
    /\ UNCHANGED <<journalVars, clientVars, fetches, credited>>

----------------------------------------------------------------------------
(* AuthProvider and AppContent (client): the authentication state, and the *)
(* effect that handles the parameters of a payment redirect                *)

\* const maxAttempts = 6
maxAttempts == 6

\* setTimeout(checkPurchaseStatus, 3000): the delay before the first check
FirstDelay == 3000

\* setTimeout(checkPurchaseStatus, 5000): the delay before a later check
RetryDelay == 5000

\* the sequence without its i-th element
Remove(seq, i) == SubSeq(seq, 1, i - 1) \o SubSeq(seq, i + 1, Len(seq))

\* session?.access_token || publicAnonKey
AccessToken == IF session = NULL THEN "anon" ELSE session

\* session.user: the user object the identity provider's client holds
SessionUser(u) == Stored([id |-> u, obj |-> "session"])

\* data.user: a user object parsed from a response body
ApiUser(u) == Stored([id |-> u, obj |-> "api"])

\* the dependency [user] of the redirect effect has changed: a parsed object
\* is a new object every time; the provider's object is taken to be one
\* object per user
Changed(old, new) == new # old \/ (new # Absent /\ new[1].obj = "api")

\* a polling chain: the closure of checkPurchaseStatus (track, attempts), the
\* delay (ms) of its pending setTimeout, 0 when none, and the delays waited
\* before its checks so far
NewChain(t) == [track |-> t, attempts |-> 0, timer |-> FirstDelay, checks |-> <<>>]

\* a chain has a check scheduled
Polling == \E i \in 1..Len(chains) : chains[i].timer # 0

\* a purchase request waits for its response
Posting == \E i \in 1..Len(posts) : posts[i].pc = "sent"

\* processBundlePurchase / processDirectPurchase: the request is sent
SendPurchase(kind, before) ==
    /\ posts' = Append(posts, [kind |-> kind, pc |-> "sent"])
    /\ toast' = before
    /\ UNCHANGED <<chains, url, reloadTimer>>

\* the webhook fallback: a chain is created and its first check scheduled
StartChain ==
    /\ chains' = Append(chains, NewChain(url.track))
    /\ toast' = "Payment successful! Checking track activation..."
    /\ UNCHANGED <<posts, url, reloadTimer>>

\* the body of the effect for a user that is not null; before is the toast
\* on the screen when the effect runs
RedirectEffect(before) ==
    IF url.success
    THEN IF url.bundle /\ url.sessionId = "query"
         THEN SendPurchase("bundle", before)
         ELSE IF url.track # NULL /\ url.sessionId = "query"
         THEN SendPurchase("direct", before)
         ELSE IF url.track # NULL
         THEN \* fullUrl.match(/session_id=([^&\s]+)/)
              IF url.sessionId = "elsewhere"
              THEN SendPurchase("direct", before)
              ELSE StartChain
         ELSE /\ toast' = "Payment successful! Refreshing your dashboard..."
              /\ reloadTimer' = TRUE
              /\ UNCHANGED <<chains, posts, url>>
    ELSE IF url.canceled
    THEN /\ toast' = "Payment was canceled"
         /\ url' = NoParams
         /\ UNCHANGED <<chains, posts, reloadTimer>>
    ELSE /\ toast' = before
         /\ UNCHANGED <<chains, posts, url, reloadTimer>>

\* setUser(v) and the render after it: the effect runs when [user] changed
SetUser(v, before) ==
    /\ clientUser' = v
    /\ IF Changed(clientUser, v) /\ v # Absent
       THEN RedirectEffect(before)
       ELSE /\ toast' = before
            /\ UNCHANGED <<chains, posts, url, reloadTimer>>

\* a profile fetch: apiCall reads the token when the fetch starts; ok and
\* body are the response once the server has answered
Fetch(token) == [pc |-> "sent", auth |-> token, ok |-> FALSE, body |-> Absent]

\* the page is loaded with the given parameters: the mount effect of
\* AuthProvider sets user and profile to null and schedules the background
\* check; timers, closures and pending responses of the page before are gone
LoadPage(params) ==
    /\ url' = params
    /\ chains' = <<>>
    /\ posts' = <<>>
    /\ toast' = ""
    /\ clientUser' = Absent
    /\ clientProfile' = Absent
    /\ reloadTimer' = FALSE
    /\ reloading' = FALSE
    /\ bgCheck' = TRUE
    /\ fetches' = <<>>
    /\ UNCHANGED session

\* window.location.reload() takes effect: the same URL is loaded again
PageLoad ==
    /\ reloading
    /\ LoadPage(url)
    /\ UNCHANGED <<accounts, profile, purchases, intents, granted, confirmed, resp>>
    /\ UNCHANGED <<journalVars, raceVars>>

\* nothing of the page is pending: no check, purchase request, reload,
\* profile fetch or background check
Idle ==
    /\ ~Polling /\ ~Posting /\ ~reloadTimer /\ ~reloading /\ ~bgCheck
    /\ fetches = <<>>

\* the processor sends the browser of a signed-in user back to the
\* application with the given parameters
Redirect(u, params) ==
    /\ session = u
    /\ u \in accounts
    /\ url = NoParams
    /\ Idle
    /\ LoadPage(params)
    /\ UNCHANGED <<accounts, profile, purchases, intents, granted, confirmed, resp>>
    /\ UNCHANGED <<journalVars, raceVars>>

\* checkAuthInBackground, 100 ms after the mount: getSession, and for a
\* session setUser(session.user), fetchProfile() and the welcome toast
BackgroundCheck(error) ==
    /\ bgCheck
    /\ bgCheck' = FALSE
    /\ IF ~error /\ session # NULL
       THEN /\ SetUser(SessionUser(session), "Welcome back!")
            /\ fetches' = Append(fetches, Fetch(AccessToken))
       ELSE UNCHANGED <<clientUser, toast, chains, posts, url, reloadTimer, fetches>>
    /\ UNCHANGED <<session, clientProfile, reloading>>
    /\ UNCHANGED <<accounts, profile, purchases, intents, granted, confirmed, resp>>
    /\ UNCHANGED <<journalVars, raceVars>>

\* signIn: signInWithPassword succeeds, the SIGNED_IN handler runs
\* setUser(session.user) and fetchProfile(), and signIn awaits a fetchProfile()
\* of its own
SignIn(u) ==
    /\ u \in accounts
    /\ session = NULL
    /\ session' = u
    /\ SetUser(SessionUser(u), toast)
    /\ fetches' = fetches \o <<Fetch(u), Fetch(u)>>
    /\ UNCHANGED <<clientProfile, reloading, bgCheck>>
    /\ UNCHANGED <<accounts, profile, purchases, intents, granted, confirmed, resp>>
    /\ UNCHANGED <<journalVars, raceVars>>

\* variant: the state is kept when the provider's call throws
SignedOut_UnlessThrows(throws, v) == IF throws THEN v ELSE Absent

\* setUser(null) / setProfile(null) after the try/catch around
\* supabase.auth.signOut()
SignedOut(throws, v) == Absent

\* signOut: the provider's call ends the session, or throws and then has
\* ended it or not; user and profile are set to null
SignOut(throws, kept) ==
    /\ session # NULL \/ clientUser # Absent
    /\ kept => throws
    /\ session' = IF kept THEN session ELSE NULL
    /\ clientUser' = SignedOut(throws, clientUser)
    /\ clientProfile' = SignedOut(throws, clientProfile)
    /\ UNCHANGED <<chains, url, toast, posts, reloadTimer, reloading, bgCheck, fetches>>
    /\ UNCHANGED <<accounts, profile, purchases, intents, granted, confirmed, resp>>
    /\ UNCHANGED <<journalVars, raceVars>>

\* refreshProfile: fetchProfile() when getSession returns a session
RefreshProfile ==
    /\ session # NULL
    /\ fetches' = Append(fetches, Fetch(AccessToken))
    /\ UNCHANGED clientVars
    /\ UNCHANGED <<accounts, profile, purchases, intents, granted, confirmed, resp>>
    /\ UNCHANGED <<journalVars, raceVars>>

\* the server handles the i-th profile fetch: GET /user/profile
ServeFetch(i, kvFail) ==
    /\ i \in 1..Len(fetches)
    /\ fetches[i].pc = "sent"
    /\ ProfileHandler(fetches[i].auth, kvFail)
    /\ fetches' = [fetches EXCEPT ![i] =
                     [@ EXCEPT !.pc = "answered", !.ok = (resp'.status = 200),
                               !.body = resp'.body]]

\* fetchProfile continues with the response of the i-th fetch: setUser and
\* setProfile for a response that is ok, setProfile(null) in the catch
DeliverFetch(i) ==
    /\ i \in 1..Len(fetches)
    /\ fetches[i].pc = "answered"
    /\ fetches' = Remove(fetches, i)
    /\ IF fetches[i].ok
       THEN /\ SetUser(ApiUser(fetches[i].auth), toast)
            /\ clientProfile' = fetches[i].body
       ELSE /\ clientProfile' = Absent
            /\ UNCHANGED <<clientUser, toast, chains, posts, url, reloadTimer>>
    /\ UNCHANGED <<session, reloading, bgCheck>>
    /\ UNCHANGED <<accounts, profile, purchases, intents, granted, confirmed, resp>>
    /\ UNCHANGED <<journalVars, raceVars>>

\* the i-th fetch throws before a response arrives: the catch of fetchProfile
FetchFails(i) ==
    /\ i \in 1..Len(fetches)
    /\ fetches[i].pc = "sent"
    /\ fetches' = Remove(fetches, i)
    /\ clientProfile' = Absent
    /\ UNCHANGED <<chains, url, toast, session, clientUser, posts, reloadTimer,
                   reloading, bgCheck>>
    /\ UNCHANGED <<accounts, profile, purchases, intents, granted, confirmed, resp>>
    /\ UNCHANGED <<journalVars, raceVars>>

\* the response to the i-th purchase request (process-bundle-purchase or
\* direct-purchase) arrives: ok, or not ok or thrown
PurchaseResponse(i, ok) ==
    /\ i \in 1..Len(posts)
    /\ posts[i].pc = "sent"
    /\ posts' = [posts EXCEPT ![i].pc = "done"]
    /\ url' = NoParams
    /\ IF ok
       THEN /\ toast' = "track successfully added to your account!"
            /\ reloading' = TRUE
       ELSE /\ toast' = "Failed to activate track. Please contact support."
            /\ UNCHANGED reloading
    /\ UNCHANGED <<chains, session, clientUser, clientProfile, reloadTimer, bgCheck>>
    /\ UNCHANGED fetches
    /\ UNCHANGED <<accounts, profile, purchases, intents, granted, confirmed, resp>>
    /\ UNCHANGED <<journalVars, raceVars>>

\* variant: one more check is scheduled after the last attempt
MoreAttempts_OneMore(n) == n <= maxAttempts

\* attempts < maxAttempts
MoreAttempts(n) == n < maxAttempts

\* what checkPurchaseStatus of chain i does once its n-th check has not
\* found the track: schedule the next check, or report the failure and
\* clear the URL
RetryOrGiveUp(i, n, message) ==
    IF MoreAttempts(n)
    THEN /\ chains' = [chains EXCEPT ![i].attempts = n,
                          ![i].checks = Append(@, chains[i].timer),
                          ![i].timer = RetryDelay]
         /\ UNCHANGED <<url, toast>>
    ELSE /\ chains' = [chains EXCEPT ![i].attempts = n,
                          ![i].checks = Append(@, chains[i].timer),
                          ![i].timer = 0]
         /\ toast' = message
         /\ url' = NoParams

\* the timer of chain i fires and checkPurchaseStatus runs: GET /purchases is
\* sent with the token of the session, or the anon key, and handled by the
\* server, unless the fetch throws
CheckPurchaseStatus(i, throws) ==
    LET n == chains[i].attempts + 1
        token == AccessToken
    IN
    /\ i \in 1..Len(chains)
    /\ chains[i].timer # 0
    /\ UNCHANGED <<session, clientUser, clientProfile, posts, reloadTimer, bgCheck>>
    /\ UNCHANGED journalVars
    /\ UNCHANGED <<raceVars, fetches>>
    /\ IF throws
       THEN /\ UNCHANGED <<accounts, profile, purchases, intents, granted,
                           confirmed, resp>>
            /\ RetryOrGiveUp(i, n, "Unable to verify purchase status")
            /\ UNCHANGED reloading
       ELSE /\ UNCHANGED <<accounts, profile, purchases, intents, granted, confirmed>>
            /\ LET err == GetUserError(token) IN
               resp' = IF err # ""
                       THEN Reply("getPurchases", NULL, AuthStatusChecked(err),
                                  err, 0, FALSE)
                       ELSE Reply("getPurchases", NULL, 200, "", 0, FALSE)
            /\ IF resp'.status = 200
                  /\ Includes(PurchasesOrEmpty(token), chains[i].track)
               THEN \* window.location.reload(): nothing is scheduled and
                    \* the URL keeps its parameters
                    /\ chains' = [chains EXCEPT ![i].attempts = n,
                                     ![i].checks = Append(@, chains[i].timer),
                                     ![i].timer = 0]
                    /\ toast' = "track activated! Refreshing dashboard..."
                    /\ reloading' = TRUE
                    /\ UNCHANGED url
               ELSE /\ RetryOrGiveUp(i, n, "Payment completed but track not activated")
                    /\ UNCHANGED reloading

\* setTimeout(() => window.location.reload(), 2000) fires
ReloadTimerFires ==
    /\ reloadTimer
    /\ reloadTimer' = FALSE
    /\ reloading' = TRUE
    /\ UNCHANGED <<chains, url, toast, session, clientUser, clientProfile, posts,
                   bgCheck, fetches>>
    /\ UNCHANGED <<accounts, profile, purchases, intents, granted, confirmed, resp>>
    /\ UNCHANGED <<journalVars, raceVars>>

----------------------------------------------------------------------------
(* ChallengesView (client): the Completed badge *)

\* t.track of an element of tracks_completed: undefined on a string
TrackField(e) == IF e.type = "object" THEN e.track ELSE "undefined"

\* profile?.tracks_completed?.some(t => t.track === track.name)
IsCompleted(p, name) ==
    \E i \in 1..Len(p.tracks_completed) : TrackField(p.tracks_completed[i]) = name

----------------------------------------------------------------------------
(* Profile specification: one account and every endpoint that reads or     *)
(* writes its profile key, PUT /user/profile included.  Purchases come     *)
(* from dev/grant-track.                                                   *)

\* the account that sends requests, and the Authorization headers it sends:
\* none, its own token, and a token the identity provider does not know
OneUser == {"u1"}
OneAuth == {"missing", "u1", "u2"}

SignupKvFailures == {"none", "profile", "purchases"}

Next ==
    \/ \E u \in OneUser, ok \in BOOLEAN, f \in SignupKvFailures : Signup(u, ok, f)
    \/ \E a \in OneAuth, f \in ProfileKvFailures : GetProfile(a, f)
    \/ \E a \in OneAuth, upd \in PutUpdates : PutProfile(a, upd)
    \/ \E a \in OneAuth : GetPurchases(a)
    \/ \E a \in OneAuth, t \in ReqTracks : GrantTrack(a, t)
    \/ \E a \in OneAuth, t \in ReqTracks : StartTrack(a, t)
    \/ \E a \in OneAuth, t \in ReqTracks :
          \E d \in ReqDays(CurrentDay(a)) : CompleteDayUpTo(a, t, d, MaxDonePut)

Spec == Init /\ [][Next]_vars

----------------------------------------------------------------------------
(* Payment specification: one account, the payment processor and every     *)
(* endpoint of the purchase workflow, with track start and day completion. *)

\* payment intent ids found in requests
ReqIntentIds == 0..(MaxIntents + 1)

NextPay ==
    \/ \E u \in OneUser, ok \in BOOLEAN, f \in SignupKvFailures : Signup(u, ok, f)
    \/ \E a \in OneAuth : GetProfile(a, "none")
    \/ \E a \in OneAuth : GetPurchases(a)
    \/ \E a \in OneAuth, t \in ReqTracks :
          Len(intents) < MaxIntents /\ CreateIntent(a, t)
    \/ \E i \in 1..MaxIntents : PaymentSucceeds(i)
    \/ \E a \in OneAuth, id \in ReqIntentIds, t \in ReqTracks :
          ProcessPaymentIntent(a, id, t)
    \/ \E a \in OneAuth, t \in ReqTracks : GrantTrack(a, t)
    \/ \E a \in OneAuth, t \in ReqTracks : StartTrack(a, t)
    \/ \E a \in OneAuth, t \in ReqTracks :
          \E d \in ReqDays(CurrentDay(a)) : CompleteDayUpTo(a, t, d, MaxDonePay)

SpecPay == Init /\ [][NextPay]_vars

----------------------------------------------------------------------------
(* Two-account specification: both accounts send the requests that read or *)
(* write the purchases key.                                                *)

NextCross ==
    \/ \E u \in Users, f \in SignupKvFailures : Signup(u, TRUE, f)
    \/ \E a \in Users : GetProfile(a, "none")
    \/ \E a \in Users : GetPurchases(a)
    \/ \E a \in Users, t \in ReqTracks :
          Len(intents) < MaxIntents /\ CreateIntent(a, t)
    \/ \E i \in 1..MaxIntents : PaymentSucceeds(i)
    \/ \E a \in Users, id \in ReqIntentIds, t \in ReqTracks :
          ProcessPaymentIntent(a, id, t)
    \/ \E a \in Users, t \in ReqTracks : GrantTrack(a, t)

SpecCross == Init /\ [][NextCross]_vars

----------------------------------------------------------------------------
(* Journey specification: one account that signs up, is granted one track  *)
(* and works through it day by day, as often as MaxDone allows; no         *)
(* PUT /user/profile.  The profile is written by signup, or created by the *)
(* first GET /user/profile when the write of signup failed.                *)

\* the kv.set failures of signup in the journey
JourneyKvFailures == {"none", "profile"}

JourneyAuth == {"missing", "u1"}
JourneyTracks == {"Money"}

NextJourney ==
    \/ \E u \in OneUser, f \in JourneyKvFailures : Signup(u, TRUE, f)
    \/ \E a \in JourneyAuth : GetProfile(a, "none")
    \/ \E a \in JourneyAuth, t \in JourneyTracks : GrantTrack(a, t)
    \/ \E a \in JourneyAuth, t \in ReqTracks : StartTrack(a, t)
    \/ \E a \in JourneyAuth, t \in ReqTracks :
          \E d \in ReqDays(CurrentDay(a)) : CompleteDayUpTo(a, t, d, MaxDone)

SpecJourney == Init /\ [][NextJourney]_vars

----------------------------------------------------------------------------
(* Endpoint specification: one account and every endpoint of the server,   *)
(* each called with and without a valid bearer token.                      *)

\* Authorization headers: none, another scheme, the token of the account,
\* and a token the identity provider rejects
AuthHeaders == {"missing", "basic", "u1", "u2"}

\* track names of the requests
AuthTracks == {"Money", "Stoicism"}

\* request bodies of the endpoint specification
AuthUpdates == {[onboarding_completed |-> TRUE]}
AuthSeedBodies == {b \in SeedBodies : b.track_id # "EGO"}
AuthDays == {0, 1}
AuthTexts == {<<>>, <<"a">>}

\* cap on the journal saves that succeed in the endpoint specification
MaxSavesAuth == 1

\* cap on the day completions that succeed in the endpoint specification
MaxDoneAuth == 1

NextAuth ==
    \/ \E u \in OneUser : Signup(u, TRUE, "none")
    \/ \E a \in AuthHeaders : GetProfile(a, "none")
    \/ \E a \in AuthHeaders, upd \in AuthUpdates : PutProfile(a, upd)
    \/ \E a \in AuthHeaders : GetPurchases(a)
    \/ \E a \in AuthHeaders, t \in AuthTracks :
          Len(intents) < MaxIntents /\ CreateIntent(a, t)
    \/ \E i \in 1..MaxIntents : PaymentSucceeds(i)
    \/ \E a \in AuthHeaders, id \in ReqIntentIds, t \in AuthTracks :
          ProcessPaymentIntent(a, id, t)
    \/ \E a \in AuthHeaders, t \in AuthTracks : GrantTrack(a, t)
    \/ \E a \in AuthHeaders, data \in AuthSeedBodies : SeedPrompts(a, data)
    \/ \E a \in AuthHeaders, t \in AuthTracks : GetPrompts(a, t)
    \/ \E a \in AuthHeaders, t \in AuthTracks : StartTrack(a, t)
    \/ \E a \in AuthHeaders, t \in AuthTracks : GetEntries(a, t)
    \/ \E a \in AuthHeaders, t \in AuthTracks, d \in AuthDays, txt \in AuthTexts :
          SaveEntryUpTo(a, t, d, txt, MaxSavesAuth)
    \/ \E a \in AuthHeaders, t \in AuthTracks :
          \E d \in ReqDays(CurrentDay(a)) : CompleteDayUpTo(a, t, d, MaxDoneAuth)

SpecAuth == Init /\ [][NextAuth]_vars

----------------------------------------------------------------------------
(* Journal specification: one account that saves and reads journal         *)
(* entries.                                                                *)

\* cap on the journal saves that succeed
MaxSaves == 3

NextEntries ==
    \/ \E u \in OneUser : Signup(u, TRUE, "none")
    \/ \E a \in JourneyAuth, t \in AuthTracks : GetEntries(a, t)
    \/ \E a \in JourneyAuth, t \in AuthTracks, d \in EntryDays, txt \in EntryTexts :
          SaveEntryUpTo(a, t, d, txt, MaxSaves)

SpecEntries == Init /\ [][NextEntries]_vars

----------------------------------------------------------------------------
(* Client specification: one user signs in and out, comes back from the    *)
(* payment page with the parameters of a redirect, and the page handles    *)
(* them: purchase requests, polling of GET /purchases while the track is   *)
(* credited or not, reloads, and the profile fetches of AuthProvider.      *)

\* cap on the profile fetches in flight
MaxFetches == 2

\* cap on the chains started and the purchase requests sent by one page
MaxEffects == 2

\* the effect has run fewer than MaxEffects times on this page
EffectsLeft == Len(chains) < MaxEffects /\ Len(posts) < MaxEffects

\* the parameters of the redirects: success with a track and no session
\* id, with a session id in the query or elsewhere in the URL, a bundle,
\* success without a track, and a canceled payment
RedirectParams ==
    {[NoParams EXCEPT !.success = TRUE, !.track = "Money"],
     [NoParams EXCEPT !.success = TRUE, !.track = "Money", !.sessionId = "query"],
     [NoParams EXCEPT !.success = TRUE, !.track = "Money", !.sessionId = "elsewhere"],
     [NoParams EXCEPT !.success = TRUE, !.bundle = TRUE, !.sessionId = "query"],
     [NoParams EXCEPT !.success = TRUE],
     [NoParams EXCEPT !.canceled = TRUE]}

\* the webhook credits the track
PollTracks == {"Money"}

NextPoll ==
    \/ \E u \in OneUser : Signup(u, TRUE, "none")
    \/ \E a \in OneUser, t \in PollTracks : GrantTrack(a, t)
    \/ \E u \in OneUser : Len(fetches) + 2 <= MaxFetches /\ EffectsLeft /\ SignIn(u)
    \/ \E throws \in BOOLEAN, kept \in BOOLEAN : SignOut(throws, kept)
    \/ \E u \in OneUser, params \in RedirectParams : Redirect(u, params)
    \/ \E error \in BOOLEAN : EffectsLeft /\ BackgroundCheck(error)
    \/ Len(fetches) < MaxFetches /\ RefreshProfile
    \/ \E i \in 1..MaxFetches : ServeFetch(i, "none")
    \/ \E i \in 1..MaxFetches : EffectsLeft /\ DeliverFetch(i)
    \/ \E i \in 1..MaxFetches : FetchFails(i)
    \/ \E i \in 1..MaxEffects, ok \in BOOLEAN : PurchaseResponse(i, ok)
    \/ \E i \in 1..MaxEffects, throws \in BOOLEAN : CheckPurchaseStatus(i, throws)
    \/ ReloadTimerFires
    \/ PageLoad

SpecPoll == Init /\ [][NextPoll]_vars

\* the steps the page takes by itself: timers fire, responses arrive, the
\* browser loads the page it was told to reload
PageStep ==
    \/ \E error \in BOOLEAN : EffectsLeft /\ BackgroundCheck(error)
    \/ \E i \in 1..MaxFetches : ServeFetch(i, "none")
    \/ \E i \in 1..MaxFetches : EffectsLeft /\ DeliverFetch(i)
    \/ \E i \in 1..MaxEffects, ok \in BOOLEAN : PurchaseResponse(i, ok)
    \/ \E i \in 1..MaxEffects, throws \in BOOLEAN : CheckPurchaseStatus(i, throws)
    \/ ReloadTimerFires
    \/ PageLoad

\* no redirect is being handled and nothing of the page is pending
Quiet == ~url.success /\ Idle

\* the user, the payment processor and the webhook act while the page is
\* quiet; the page takes its steps; a profile fetch may fail
NextPollFair ==
    \/ \E u \in OneUser : Quiet /\ Signup(u, TRUE, "none")
    \/ \E a \in OneUser, t \in PollTracks : Quiet /\ GrantTrack(a, t)
    \/ \E u \in OneUser : Quiet /\ SignIn(u)
    \/ \E throws \in BOOLEAN, kept \in BOOLEAN : Quiet /\ SignOut(throws, kept)
    \/ \E u \in OneUser, params \in RedirectParams : Redirect(u, params)
    \/ \E i \in 1..MaxFetches : FetchFails(i)
    \/ PageStep

\* the client with its timers and responses not delayed forever
SpecPollFair == Init /\ [][NextPollFair]_vars /\ WF_vars(PageStep)

----------------------------------------------------------------------------
(* Interleaving specification: one account whose requests are handled      *)
(* store access by store access, two at a time.  The track is started by   *)
(* a request that is handled alone.                                        *)

\* cap on the day completions of the profile in the interleaving
\* specification
MaxDoneRace == 2

\* day numbers of the interleaved requests
RaceDays == {1, 2}

NextRace ==
    \/ \E u \in OneUser, f \in JourneyKvFailures : Signup(u, TRUE, f)
    \/ \E a \in OneUser, t \in RaceTracks :
          Len(intents) < MaxIntents /\ CreateIntent(a, t)
    \/ \E i \in 1..MaxIntents : PaymentSucceeds(i)
    \/ \E a \in OneUser, t \in JourneyTracks : StartTrack(a, t)
    \/ \E r \in Requests, u \in OneUser, t \in JourneyTracks, d \in RaceDays :
          /\ profile[u] # Absent => profile[u][1].total_days_completed < MaxDoneRace
          /\ Arrive(r, "completeDay", u, t, d)
    \/ \E r \in Requests, op \in CreditOps, u \in OneUser, t \in RaceTracks :
          Arrive(r, op, u, t, 0)
    \/ \E r \in Requests, u \in OneUser : Arrive(r, "grantTrack", u, "Stoicism", 0)
    \/ \E r \in Requests, u \in OneUser : Arrive(r, "getProfile", u, NULL, 0)
    \/ \E r \in Requests : CompleteDayGet(r)
    \/ \E r \in Requests : CompleteDaySet(r)
    \/ \E r \in Requests : CreditGet(r)
    \/ \E r \in Requests : CreditSet(r)
    \/ \E r \in Requests : LazyGetProfile(r)
    \/ \E r \in Requests : LazySetProfile(r)
    \/ \E r \in Requests : LazyGetPurchases(r)
    \/ \E r \in Requests : LazySetPurchases(r)
    \/ \E r \in Requests : Leave(r)

SpecRace == Init /\ [][NextRace]_vars

----------------------------------------------------------------------------
(* Properties *)

\* the request is authenticated: getUser returns the account of the token
Authenticated(a) == GetUserError(a) = ""

\* (track, day) is exactly the stored current track and day of account a
MatchesCurrent(a, t, d) ==
    /\ profile[a] # Absent
    /\ profile[a][1].current_track = t
    /\ profile[a][1].current_day = d

\* C1: for a valid request (known track, day in 1..30) completeDay succeeds
\* only if (track, day) equals the stored (current_track, current_day); in
\* every other case it is rejected and the stored profile is unchanged.
C1_CompleteDayOnlyCurrent ==
    [][resp'.op = "completeDay" =>
          LET t == resp'.track
              d == resp'.day
          IN \A a \in OneAuth :
                (/\ Authenticated(a)
                 /\ t \in ValidTracks
                 /\ d \in 1..LastDay
                 /\ CompleteDay(a, t, d)) =>
                   /\ resp'.status = 200 => MatchesCurrent(a, t, d)
                   /\ ~MatchesCurrent(a, t, d) =>
                         (resp'.status # 200 /\ profile' = profile)
      ]_vars

\* a valid completeDay request was rejected because its day is not the
\* stored current day of the active track
C1_Witness ==
    /\ resp.op = "completeDay"
    /\ resp.status = 400
    /\ resp.error = "Not the current day"
    /\ profile["u1"] # Absent
    /\ profile["u1"][1].current_track = resp.track
    /\ profile["u1"][1].current_day # resp.day
    /\ resp.day \in 1..LastDay

\* C4: startTrack on a track that is not in the purchase set of the
\* requesting user fails and leaves the stored profile unchanged.
C4_StartUnpurchasedFails ==
    [][\A a \in OneAuth, t \in ReqTracks :
          (Authenticated(a) /\ ~Includes(PurchasesOrEmpty(a), t) /\ StartTrack(a, t)) =>
             (resp'.status # 200 /\ profile' = profile)
      ]_vars

\* startTrack was refused for a valid track the user has not purchased,
\* while the user has a profile and owns another track
C4_Witness ==
    /\ resp.op = "startTrack"
    /\ resp.error = "Track not purchased"
    /\ resp.track \in ValidTracks
    /\ profile["u1"] # Absent
    /\ Len(PurchasesOrEmpty("u1")) > 0

\* C5 as stated: startTrack on a purchased track always succeeds and leaves
\* current_track = track and current_day = 1.
C5_StartPurchasedAlwaysSucceeds ==
    [][\A a \in OneAuth, t \in ReqTracks :
          (Authenticated(a) /\ Includes(PurchasesOrEmpty(a), t) /\ StartTrack(a, t)) =>
             /\ resp'.status = 200
             /\ profile'[a] # Absent
             /\ profile'[a][1].current_track = t
             /\ profile'[a][1].current_day = 1
      ]_vars

\* C5 amended: startTrack on a purchased track succeeds whenever a profile
\* is stored for the user, and then current_track = track and current_day = 1;
\* without a stored profile it is rejected with 404 and writes nothing.
C5_StartPurchasedSucceedsWithProfile ==
    [][\A a \in OneAuth, t \in ReqTracks :
          (Authenticated(a) /\ Includes(PurchasesOrEmpty(a), t) /\ StartTrack(a, t)) =>
             IF profile[a] # Absent
             THEN /\ resp'.status = 200
                  /\ profile'[a][1].current_track = t
                  /\ profile'[a][1].current_day = 1
             ELSE /\ resp'.status = 404
                  /\ profile' = profile
      ]_vars

\* a purchased track was started again from a later day: the day is back at 1
C5_Witness ==
    /\ resp.op = "startTrack"
    /\ resp.status = 200
    /\ profile["u1"][1].current_track = resp.track
    /\ profile["u1"][1].current_day = 1
    /\ profile["u1"][1].total_days_completed > 0

----------------------------------------------------------------------------
\* the step is the successful completion of day 30 of track t by account a
CompletesTrack(a, t) ==
    /\ resp'.op = "completeDay"
    /\ resp'.status = 200
    /\ resp'.track = t
    /\ Authenticated(a)
    /\ CompleteDay(a, t, LastDay)

\* C6 as stated: every successful completeDay(track, 30) clears the active
\* track and makes tracks_completed exactly one element longer, also when
\* the track was completed before.
C6_Day30AlwaysAppendsOne ==
    [][\A a \in OneAuth, t \in ValidTracks :
          CompletesTrack(a, t) =>
             /\ profile'[a][1].current_track = NULL
             /\ profile'[a][1].current_day = 0
             /\ Len(profile'[a][1].tracks_completed)
                   = Len(profile[a][1].tracks_completed) + 1
      ]_vars

\* C6 amended: every successful completeDay(track, 30) clears the active
\* track; tracks_completed gets the track appended when it does not hold it
\* yet, and is unchanged when the track was completed before.
C6_Day30AppendsUnlessRecorded ==
    [][\A a \in OneAuth, t \in ValidTracks :
          CompletesTrack(a, t) =>
             /\ profile'[a][1].current_track = NULL
             /\ profile'[a][1].current_day = 0
             /\ profile'[a][1].tracks_completed =
                   IF Includes(profile[a][1].tracks_completed, JsString(t))
                   THEN profile[a][1].tracks_completed
                   ELSE Append(profile[a][1].tracks_completed, JsString(t))
      ]_vars

\* day 30 of a track was completed: the profile is idle and holds the track
C6_Witness ==
    /\ resp.op = "completeDay"
    /\ resp.status = 200
    /\ resp.day = LastDay
    /\ resp.trackCompleted
    /\ profile["u1"][1].current_track = NULL
    /\ Includes(profile["u1"][1].tracks_completed, JsString(resp.track))

\* the step repeats, for account a, the completeDay(track, 30) request that
\* has just succeeded
RepeatsCompletedDay30(a) ==
    /\ resp.op = "completeDay"
    /\ resp.status = 200
    /\ resp.day = LastDay
    /\ resp'.op = "completeDay"
    /\ Authenticated(a)
    /\ CompleteDay(a, resp.track, LastDay)

\* C7 as stated: the repeated completeDay(track, 30) is rejected as
\* 'Not the current day' and changes nothing.
C7_SecondCallNotCurrentDay ==
    [][\A a \in OneAuth :
          RepeatsCompletedDay30(a) =>
             /\ resp'.status = 400
             /\ resp'.error = "Not the current day"
             /\ profile' = profile
      ]_vars

\* C7 amended: the repeated completeDay(track, 30) is rejected with status
\* 400 by the track check ('Not the current active track', current_track
\* being null by then) and the stored profile is unchanged.
C7_SecondCallNotCurrentTrack ==
    [][\A a \in OneAuth :
          RepeatsCompletedDay30(a) =>
             /\ resp'.status = 400
             /\ resp'.error = "Not the current active track"
             /\ profile' = profile
      ]_vars

\* completeDay(track, 30) was rejected on the idle profile that the
\* completion of that track left
C7_Witness ==
    /\ resp.op = "completeDay"
    /\ resp.status = 400
    /\ resp.day = LastDay
    /\ resp.error = "Not the current active track"
    /\ profile["u1"] # Absent
    /\ profile["u1"][1].current_track = NULL
    /\ profile["u1"][1].current_day = 0
    /\ Includes(profile["u1"][1].tracks_completed, JsString(resp.track))

\* C8: in every stored profile current_day is 0 exactly when current_track
\* is null and within 1..30 exactly when current_track is non-null.
C8_DayMatchesTrack ==
    \A u \in Users :
       profile[u] # Absent =>
          /\ profile[u][1].current_day = 0 <=> profile[u][1].current_track = NULL
          /\ profile[u][1].current_day \in 1..LastDay
                <=> profile[u][1].current_track # NULL

\* C9: every element of tracks_completed is a completion record with a
\* track field, and after a successful completeDay(T, 30) the client
\* predicate tracks_completed.some(t => t.track === T) is true for T.
C9_CompletedEntriesAreRecords ==
    /\ \A u \in Users :
          profile[u] # Absent =>
             \A i \in 1..Len(profile[u][1].tracks_completed) :
                profile[u][1].tracks_completed[i].type = "object"
    /\ (resp.op = "completeDay" /\ resp.status = 200 /\ resp.trackCompleted) =>
          IsCompleted(profile["u1"][1], resp.track)

----------------------------------------------------------------------------
\* how many times x occurs in list
Occurrences(list, x) == Cardinality({i \in 1..Len(list) : list[i] = x})

\* Owns(ps, u, t): track t is in the purchase list of u in the store ps
Owns(ps, u, t) == Includes(ListOf(ps[u]), t)

\* C2: however often the same succeeded payment is confirmed by its user,
\* the track is in the purchase list exactly once after each call, and a
\* call for an intent that was confirmed before writes nothing.
C2_ConfirmCreditsOnce ==
    [][(resp'.op = "processPaymentIntent" /\ resp'.status = 200) =>
          \A a \in OneAuth, id \in ReqIntentIds :
             (Authenticated(a) /\ ProcessPaymentIntent(a, id, resp'.track)) =>
                /\ Occurrences(ListOf(purchases'[a]), resp'.track) = 1
                /\ <<a, id>> \in confirmed =>
                      (resp'.kvSets = 0 /\ purchases' = purchases)
      ]_vars

\* a payment was confirmed again: the call succeeded without a write, for a
\* track that only an earlier confirmation can have credited
C2_Witness ==
    /\ resp.op = "processPaymentIntent"
    /\ resp.status = 200
    /\ resp.kvSets = 0
    /\ granted = {}
    /\ confirmed # {}
    /\ Occurrences(ListOf(purchases["u1"]), resp.track) = 1

\* the processor holds a succeeded intent id of user u for track t that u
\* has confirmed
ConfirmedPayment(u, t) ==
    \E id \in 1..Len(intents) :
       /\ <<u, id>> \in confirmed
       /\ intents[id].status = "succeeded"
       /\ intents[id].user_id = u
       /\ intents[id].track_name = t

\* C3: a track is in a user's purchase list only if that user confirmed a
\* succeeded payment whose metadata names the user and the track, or was
\* granted the track; a process-payment-intent call citing an intent that is
\* not succeeded, or is of another user or for another track, is rejected
\* and changes no purchase list.
C3_OnlyVerifiedCredit ==
    /\ [](\A u \in Users, t \in ValidTracks :
             Owns(purchases, u, t) => (ConfirmedPayment(u, t) \/ <<u, t>> \in granted))
    /\ [][resp'.op = "processPaymentIntent" =>
             \A a \in Users, id \in 1..Len(intents) :
                (/\ Authenticated(a)
                 /\ ProcessPaymentIntent(a, id, resp'.track)
                 /\ \/ intents[id].status # "succeeded"
                    \/ intents[id].user_id # a
                    \/ intents[id].track_name # resp'.track) =>
                   (resp'.status # 200 /\ purchases' = purchases)
         ]_vars

\* a user cited the succeeded payment of the other user, for the track of
\* that payment, and was refused
C3_Witness ==
    /\ resp.op = "processPaymentIntent"
    /\ resp.status = 400
    /\ resp.error = "Payment intent metadata mismatch"
    /\ Len(intents) = 1
    /\ intents[1].status = "succeeded"
    /\ intents[1].track_name = resp.track
    /\ \A u \in Users : ~Owns(purchases, u, resp.track)

\* C10: with requests handled one at a time, a track that is in a user's
\* purchase list stays in it in every later state.
C10_PurchasesGrowOnly ==
    [][\A u \in Users, t \in ValidTracks :
          Owns(purchases, u, t) => Owns(purchases', u, t)]_vars

\* GET /user/profile created the profile of a user who already owned a
\* track, and the purchase list was kept
C10_Witness ==
    /\ resp.op = "getProfile"
    /\ resp.status = 200
    /\ resp.kvSets = 1
    /\ \E t \in ValidTracks : Owns(purchases, "u1", t)

----------------------------------------------------------------------------
\* C11: createIntent rejects an unknown track name and a track the
\* requesting user already owns, creating no payment request in either case;
\* otherwise it creates exactly one payment request whose metadata is
\* {user_id: requesting user, track_name: track}; it never changes the
\* purchase lists or the profiles.
C11_CreateIntentContract ==
    [][resp'.op = "createIntent" =>
          LET t == resp'.track IN
          \A a \in OneAuth :
             (Authenticated(a) /\ CreateIntent(a, t)) =>
                /\ purchases' = purchases
                /\ profile' = profile
                /\ IF t \notin ValidTracks \/ Owns(purchases, a, t)
                   THEN resp'.status = 400 /\ intents' = intents
                   ELSE /\ resp'.status = 200
                        /\ Len(intents') = Len(intents) + 1
                        /\ SubSeq(intents', 1, Len(intents)) = intents
                        /\ intents'[Len(intents')].user_id = a
                        /\ intents'[Len(intents')].track_name = t
      ]_vars

\* a user who owns one track asked for a payment request for another track:
\* the processor holds one request, tagged with the user and that track
C11_Witness ==
    /\ resp.op = "createIntent"
    /\ resp.status = 200
    /\ Len(intents) = 1
    /\ intents[1].user_id = "u1"
    /\ intents[1].track_name = resp.track
    /\ Len(PurchasesOrEmpty("u1")) = 1
    /\ ~Owns(purchases, "u1", resp.track)

----------------------------------------------------------------------------
\* the keys of the store are the same before and after the step
StoreUnchanged ==
    /\ profile' = profile
    /\ purchases' = purchases
    /\ journal' = journal
    /\ prompts' = prompts

\* the step handles a request with Authorization header a to an endpoint
\* that calls getUser
AuthenticatedEndpoint(a) ==
    \/ \E f \in ProfileKvFailures : GetProfile(a, f)
    \/ \E upd \in PutUpdates : PutProfile(a, upd)
    \/ GetPurchases(a)
    \/ CreateIntent(a, resp'.track)
    \/ \E id \in ReqIntentIds : ProcessPaymentIntent(a, id, resp'.track)
    \/ GrantTrack(a, resp'.track)
    \/ GetPrompts(a, resp'.track)
    \/ StartTrack(a, resp'.track)
    \/ GetEntries(a, resp'.track)
    \/ \E txt \in EntryTexts : SaveEntry(a, resp'.track, resp'.day, txt)
    \/ CompleteDay(a, resp'.track, resp'.day)

\* C12: a request without a valid bearer token to any endpoint other than
\* signup, health and config, POST /admin/seed-prompts included, is rejected
\* and changes nothing in the store.
C12_AllEndpointsNeedBearer ==
    [][\A a \in AuthHeaders :
          (/\ ~Authenticated(a)
           /\ \/ AuthenticatedEndpoint(a)
              \/ \E data \in SeedBodies : SeedPrompts(a, data)) =>
             (resp'.status >= 400 /\ StoreUnchanged)
      ]_vars

\* C13: an authentication failure (no header, a header that does not start
\* with 'Bearer ', a token the identity provider rejects) on an endpoint that
\* authenticates yields status 401.
C13_AuthFailureIs401 ==
    [][\A a \in AuthHeaders :
          (~Authenticated(a) /\ AuthenticatedEndpoint(a)) => resp'.status = 401
      ]_vars

----------------------------------------------------------------------------
\* the entries of list that are for day d
EntriesOf(list, d) == {i \in 1..Len(list) : list[i].day = d}

\* the successful saves of (u, t, d), as indexes of the history
SavesOf(u, t, d) ==
    {k \in 1..Len(saved) :
        saved[k].user = u /\ saved[k].track = t /\ saved[k].day = d}

\* the least and the greatest element of a non-empty set of numbers
Least(S) == CHOOSE k \in S : \A j \in S : k <= j
Greatest(S) == CHOOSE k \in S : \A j \in S : j <= k

\* txt without the white space at its ends, computed by search
Stripped(txt) ==
    IF \A i \in 1..Len(txt) : txt[i] \in Whitespace THEN <<>>
    ELSE SubSeq(txt,
                Least({i \in 1..Len(txt) : txt[i] \notin Whitespace}),
                Greatest({i \in 1..Len(txt) : txt[i] \notin Whitespace}))

\* C14: after any sequence of saveEntry calls for (user, track) the stored
\* list holds at most one entry per day; the entry of day d holds the
\* trimmed text of the latest successful save for d and the created_at of
\* the first one; a save to d leaves the entries of the other days unchanged.
C14_UpsertPerDay ==
    /\ [](\A u \in OneUser, t \in ValidTracks, d \in 1..LastDay :
             LET list == ListOf(journal[u][t])
                 S == SavesOf(u, t, d)
             IN /\ Cardinality(EntriesOf(list, d)) <= 1
                /\ (S = {}) <=> (EntriesOf(list, d) = {})
                /\ S # {} =>
                      \A i \in EntriesOf(list, d) :
                         /\ list[i].entry_text = Stripped(saved[Greatest(S)].text)
                         /\ list[i].created_at = saved[Least(S)].at)
    /\ [][(resp'.op = "saveEntry" /\ resp'.status = 200) =>
             \A u \in OneUser, t \in ValidTracks :
                LET old == ListOf(journal[u][t])
                    new == ListOf(journal'[u][t])
                IN \A i \in 1..Len(old) :
                      (t # resp'.track \/ old[i].day # resp'.day) => new[i] = old[i]
         ]_vars

\* an entry was saved a second time with another text: one entry for the
\* day, with the new text and the first created_at, next to another day's
C14_Witness ==
    /\ resp.op = "saveEntry"
    /\ resp.status = 200
    /\ \E t \in ValidTracks :
          LET list == ListOf(journal["u1"][t]) IN
          /\ Len(list) = 2
          /\ list[1].day = resp.day
          /\ list[1].created_at < list[1].updated_at
          /\ list[1].updated_at = clock
          /\ \E k \in SavesOf("u1", t, resp.day) :
                Stripped(saved[k].text) # list[1].entry_text

\* C15: saveEntry rejects with status 400 a day outside 1..30, a text that
\* is empty or only white space, and an unknown track name, and the stored
\* entry lists are unchanged by the rejection.
C15_SaveEntryRejects ==
    [][resp'.op = "saveEntry" =>
          \A a \in JourneyAuth, txt \in EntryTexts :
             (/\ Authenticated(a)
              /\ SaveEntry(a, resp'.track, resp'.day, txt)
              /\ \/ resp'.track \notin ValidTracks
                 \/ resp'.day \notin 1..LastDay
                 \/ \A i \in 1..Len(txt) : txt[i] \in Whitespace) =>
                (resp'.status = 400 /\ journal' = journal)
      ]_vars

\* a save of white space only, for a valid track and day that has an entry,
\* was rejected
C15_Witness ==
    /\ resp.op = "saveEntry"
    /\ resp.status = 400
    /\ resp.error = "Entry text is required"
    /\ resp.track \in ValidTracks
    /\ resp.day \in 1..LastDay
    /\ EntriesOf(ListOf(journal["u1"][resp.track]), resp.day) # {}

----------------------------------------------------------------------------
\* C16: every successful completeDay increases streak by exactly 1 and
\* total_days_completed by exactly 1, for day 30 as for earlier days, and a
\* rejected completeDay changes neither.
C16_CompleteDayCountsOne ==
    [][resp'.op = "completeDay" =>
          \A a \in JourneyAuth :
             (Authenticated(a) /\ CompleteDay(a, resp'.track, resp'.day)) =>
                IF resp'.status = 200
                THEN /\ profile'[a][1].streak = profile[a][1].streak + 1
                     /\ profile'[a][1].total_days_completed
                           = profile[a][1].total_days_completed + 1
                ELSE profile' = profile
      ]_vars

\* day 30 of the second run through a track was completed: 60 days counted
C16_Witness ==
    /\ resp.op = "completeDay"
    /\ resp.status = 200
    /\ resp.day = LastDay
    /\ profile["u1"][1].streak = 2 * LastDay
    /\ profile["u1"][1].total_days_completed = 2 * LastDay

\* C17: a successful startTrack changes only current_track and current_day
\* of the profile: streak, total_days_completed, tracks_completed,
\* onboarding_completed and the purchase lists are unchanged, also when the
\* track is the active one, was completed before, or replaces another one.
C17_StartTrackFrame ==
    [][(resp'.op = "startTrack" /\ resp'.status = 200) =>
          \A a \in OneAuth :
             (Authenticated(a) /\ StartTrack(a, resp'.track)) =>
                /\ profile'[a][1].streak = profile[a][1].streak
                /\ profile'[a][1].total_days_completed
                      = profile[a][1].total_days_completed
                /\ profile'[a][1].tracks_completed = profile[a][1].tracks_completed
                /\ profile'[a][1].onboarding_completed
                      = profile[a][1].onboarding_completed
                /\ purchases' = purchases
                /\ \A u \in Users \ {a} : profile'[u] = profile[u]
      ]_vars

\* a track that is in tracks_completed was started again by a user who owns
\* two tracks and has finished onboarding; the counters are still there
C17_Witness ==
    /\ resp.op = "startTrack"
    /\ resp.status = 200
    /\ profile["u1"][1].current_track = resp.track
    /\ Includes(profile["u1"][1].tracks_completed, JsString(resp.track))
    /\ profile["u1"][1].onboarding_completed
    /\ profile["u1"][1].streak > 0
    /\ Len(PurchasesOrEmpty("u1")) = 2

----------------------------------------------------------------------------
\* the fields of a stored profile that track start and day completion write
Progress(p) ==
    <<p.current_track, p.current_day, p.streak, p.total_days_completed,
      p.tracks_completed>>

\* C18: once a profile record exists, only track start and day completion
\* change its current_track, current_day, streak, total_days_completed or
\* tracks_completed: no other endpoint does, PUT /user/profile and
\* GET /user/profile included.
C18_OnlyJournalChangesProgress ==
    [][\A u \in Users :
          (/\ profile[u] # Absent
           /\ \/ profile'[u] = Absent
              \/ Progress(profile'[u][1]) # Progress(profile[u][1])) =>
             resp'.op \in {"startTrack", "completeDay"}
      ]_vars

\* C19: when the read of the store fails during GET /user/profile the
\* request succeeds with the default idle profile (current_track null,
\* current_day 0, streak 0, total_days_completed 0, no completed track) and
\* a warning, and nothing is written to the store.
C19_ReadFailureDegrades ==
    [][resp'.op = "getProfile" =>
          \A a \in OneAuth :
             (Authenticated(a) /\ GetProfile(a, "get")) =>
                /\ resp'.status = 200
                /\ resp'.warning # ""
                /\ resp'.body # Absent
                /\ resp'.body[1].current_track = NULL
                /\ resp'.body[1].current_day = 0
                /\ resp'.body[1].streak = 0
                /\ resp'.body[1].total_days_completed = 0
                /\ resp'.body[1].tracks_completed = <<>>
                /\ resp'.kvSets = 0
                /\ StoreUnchanged
      ]_vars

\* the read failed for a user in the middle of a track: the response shows
\* the idle profile with the warning, and the stored profile is as it was
C19_Witness ==
    /\ resp.op = "getProfile"
    /\ resp.status = 200
    /\ resp.warning # ""
    /\ resp.body[1].current_track = NULL
    /\ profile["u1"] # Absent
    /\ profile["u1"][1].current_track # NULL
    /\ profile["u1"][1].streak > 0

----------------------------------------------------------------------------
\* the toasts that report that the chain has given up
FailureToasts ==
    {"Payment completed but track not activated",
     "Unable to verify purchase status"}

\* C20: a polling chain performs at most 6 purchase-status checks, the first
\* one 3 seconds after it starts and each later one 5 seconds after the
\* check before it; a check that finds the track stops the chain; after the
\* 6th check that does not find it, or fails, the chain reports failure,
\* clears the URL parameters and schedules nothing.
C20_PollingBounded ==
    /\ [](\A i \in 1..Len(chains) :
             /\ chains[i].attempts <= maxAttempts
             /\ Len(chains[i].checks) = chains[i].attempts
             /\ \A k \in 1..Len(chains[i].checks) :
                   chains[i].checks[k] = IF k = 1 THEN FirstDelay ELSE RetryDelay
             /\ chains[i].timer # 0 => chains[i].attempts < maxAttempts)
    /\ [][\A i \in 1..MaxEffects, throws \in BOOLEAN :
             CheckPurchaseStatus(i, throws) =>
                LET found == /\ ~throws
                             /\ AccessToken \in accounts
                             /\ Owns(purchases, AccessToken, chains[i].track)
                IN /\ found => chains'[i].timer = 0
                   /\ (~found /\ chains'[i].attempts < maxAttempts) =>
                         (chains'[i].timer = RetryDelay /\ url' = url)
                   /\ (~found /\ chains'[i].attempts >= maxAttempts) =>
                         /\ chains'[i].timer = 0
                         /\ toast' \in FailureToasts
                         /\ url' = NoParams
         ]_vars

\* the 6th check of a chain has failed like the five before it: the failure
\* is reported, the URL is cleared and the chain has no timer pending
C20_Witness ==
    \E i \in 1..Len(chains) :
       /\ chains[i].attempts = maxAttempts
       /\ chains[i].checks = <<FirstDelay, RetryDelay, RetryDelay, RetryDelay,
                               RetryDelay, RetryDelay>>
       /\ chains[i].timer = 0
       /\ toast \in FailureToasts
       /\ url = NoParams
       /\ chains[i].track \in ValidTracks
       /\ ~Owns(purchases, "u1", chains[i].track)

----------------------------------------------------------------------------
\* C21: completeDay(T, d) with d the stored current day of the active track
\* T moves the profile to day d + 1 of T when d < 30 and, when d = 30, to the
\* idle profile with T in tracks_completed; so 30 such calls from day 1 reach
\* the idle profile, and current_day never exceeds 30.
C21_DayByDayToIdle ==
    /\ [](\A u \in OneUser :
             profile[u] # Absent =>
                /\ profile[u][1].current_day <= LastDay
                /\ profile[u][1].current_track # NULL =>
                      profile[u][1].total_days_completed
                         >= profile[u][1].current_day - 1)
    /\ [][resp'.op = "completeDay" =>
             LET t == resp'.track
                 d == resp'.day
             IN \A a \in JourneyAuth :
                   (/\ Authenticated(a)
                    /\ CompleteDay(a, t, d)
                    /\ t \in ValidTracks
                    /\ d \in 1..LastDay
                    /\ MatchesCurrent(a, t, d)) =>
                      /\ resp'.status = 200
                      /\ IF d < LastDay
                         THEN /\ profile'[a][1].current_track = t
                              /\ profile'[a][1].current_day = d + 1
                         ELSE /\ profile'[a][1].current_track = NULL
                              /\ profile'[a][1].current_day = 0
                              /\ Includes(profile'[a][1].tracks_completed, JsString(t))
         ]_vars

\* the 30th completion in a row, counted from the first start of the track,
\* has left the idle profile with the track recorded
C21_Witness ==
    /\ resp.op = "completeDay"
    /\ resp.status = 200
    /\ resp.day = LastDay
    /\ profile["u1"][1].current_track = NULL
    /\ profile["u1"][1].current_day = 0
    /\ profile["u1"][1].total_days_completed = LastDay
    /\ profile["u1"][1].tracks_completed = <<JsString(resp.track)>>

----------------------------------------------------------------------------
\* C23: GET /user/profile for a user without a stored profile stores and
\* returns the default idle profile, and sets the purchase list to empty
\* only when no purchase list is stored: a stored list is left as it is.
C23_LazyCreationKeepsPurchases ==
    [][resp'.op = "getProfile" =>
          \A a \in OneAuth :
             (Authenticated(a) /\ profile[a] = Absent /\ GetProfile(a, "none")) =>
                /\ resp'.status = 200
                /\ profile'[a] # Absent
                /\ resp'.body = profile'[a]
                /\ profile'[a][1].current_track = NULL
                /\ profile'[a][1].current_day = 0
                /\ profile'[a][1].streak = 0
                /\ profile'[a][1].total_days_completed = 0
                /\ profile'[a][1].tracks_completed = <<>>
                /\ purchases'[a] =
                      IF purchases[a] = Absent THEN Stored(<<>>) ELSE purchases[a]
      ]_vars

\* the first profile fetch of a user whose payment was confirmed before it:
\* the profile was created and the paid track is still in the list
C23_Witness ==
    /\ resp.op = "getProfile"
    /\ resp.status = 200
    /\ resp.kvSets = 1
    /\ resp.body = Stored(DefaultProfile)
    /\ granted = {}
    /\ \E t \in ValidTracks : ConfirmedPayment("u1", t) /\ Owns(purchases, "u1", t)

----------------------------------------------------------------------------
\* the step is a completeDay request that returned success
CompleteDaySucceeded == resp'.op = "completeDay" /\ resp'.status = 200

\* C30: for a profile created by signup or by lazy creation and changed only
\* by startTrack and completeDay requests handled one at a time, streak
\* equals total_days_completed in every state; both are 0 when the profile
\* is created, grow by 1 with each completeDay that returns success and are
\* unchanged by every other request, so both equal the number of successful
\* completeDay requests and never decrease.
C30_StreakEqualsTotal ==
    /\ [](\A u \in OneUser :
             profile[u] # Absent =>
                profile[u][1].streak = profile[u][1].total_days_completed)
    /\ [][\A u \in OneUser :
             IF profile[u] = Absent
             THEN profile'[u] # Absent =>
                     (profile'[u][1].total_days_completed = 0 /\ ~CompleteDaySucceeded)
             ELSE /\ profile'[u] # Absent
                  /\ profile'[u][1].total_days_completed =
                        profile[u][1].total_days_completed
                           + (IF CompleteDaySucceeded THEN 1 ELSE 0)
         ]_vars

\* the profile is at the start of its second run through the track: 30 days
\* are counted in both counters; the start of the second run and the request
\* rejected after it changed neither
C30_Witness ==
    /\ resp.op = "completeDay"
    /\ resp.status = 400
    /\ profile["u1"] # Absent
    /\ profile["u1"][1].current_day = 1
    /\ profile["u1"][1].tracks_completed # <<>>
    /\ profile["u1"][1].streak = LastDay
    /\ profile["u1"][1].total_days_completed = LastDay

----------------------------------------------------------------------------
(* Interleaved requests *)

\* no request is between two of its store accesses
Quiescent == \A r \in Requests : reqs[r].pc \in {"free", "done"}

\* the request in slot r is a complete-day request that returned success
CompletedDay(q) == q.pc = "done" /\ q.op = "completeDay" /\ q.status = 200

\* two requests for the same user, track and day that read the same profile:
\* both reads came before both writes
SameRead(q1, q2) ==
    /\ q1.user = q2.user /\ q1.track = q2.track /\ q1.day = q2.day
    /\ q1.read = q2.read

\* C22: two completeDay requests for the same user, track and day whose
\* store read and store write interleave both pass the guards and both
\* return success; when the second of them writes, the stored profile is one
\* day past the profile both read, and streak and total_days_completed are
\* 1 (not 2) more than in that profile.
C22_InterleavedCompleteDayCountsOnce ==
    [][\A r1 \in Requests, r2 \in Requests :
          ( /\ r1 # r2
            /\ reqs[r1].pc = "set" /\ reqs[r1].op = "completeDay"
            /\ reqs'[r1].pc = "done"
            /\ CompletedDay(reqs[r2])
            /\ SameRead(reqs[r1], reqs[r2]) )
          => LET q == reqs[r1]
                 old == q.read[1]
                 new == profile'[q.user][1]
             IN /\ reqs'[r1].status = 200
                /\ new.current_day = q.day + 1
                /\ new.current_track = q.track
                /\ new.streak = old.streak + 1
                /\ new.total_days_completed = old.total_days_completed + 1
      ]_vars

\* C22 witness: both requests for day 1 of Money have returned success and
\* the stored profile is at day 2 with one day counted.
C22_Witness ==
    /\ CompletedDay(reqs[1]) /\ CompletedDay(reqs[2])
    /\ SameRead(reqs[1], reqs[2])
    /\ reqs[1].day = 1
    /\ profile["u1"] # Absent
    /\ profile["u1"][1].current_day = 2
    /\ profile["u1"][1].total_days_completed =
          reqs[1].read[1].total_days_completed + 1

\* C25: once no request is between its store accesses, every track that a
\* request reported as credited is in the user's purchase list.
C25_CreditsSurvive ==
    Quiescent => \A c \in credited : Owns(purchases, c[1], c[2])

\* C26: under every interleaving, a stored purchase list holds no track
\* name twice and only names of the four tracks.
C26_PurchaseListIsSet ==
    \A u \in Users :
       \A i \in 1..Len(ListOf(purchases[u])) :
          /\ ListOf(purchases[u])[i] \in ValidTracks
          /\ Occurrences(ListOf(purchases[u]), ListOf(purchases[u])[i]) = 1

\* C26 witness: two requests that credited the same track from the same
\* read have both written, and the list holds two tracks.
C26_Witness ==
    /\ reqs[1].pc = "done" /\ reqs[2].pc = "done"
    /\ reqs[1].op \in CreditOps /\ reqs[2].op \in CreditOps
    /\ reqs[1].track = reqs[2].track
    /\ reqs[1].read = reqs[2].read /\ reqs[1].read # Absent
    /\ Len(ListOf(purchases["u1"])) = 2

----------------------------------------------------------------------------
(* Client authentication state and the redirect effect *)

\* C24: signOut ends with the client's user and profile both null, also
\* when the identity provider's sign-out call throws.
C24_SignOutClears ==
    [][\A throws \in BOOLEAN, kept \in BOOLEAN :
          SignOut(throws, kept) =>
             (clientUser' = Absent /\ clientProfile' = Absent)
      ]_vars

\* C24 witness: the provider's call threw and left the session in place (a
\* session without a user on a page whose effect has run); user and
\* profile are null.
C24_Witness ==
    /\ session # NULL
    /\ Len(chains) > 0
    /\ clientUser = Absent
    /\ clientProfile = Absent

\* the number of purchase-status checks the chains have made
RECURSIVE TotalChecks(_)
TotalChecks(cs) ==
    IF cs = <<>> THEN 0 ELSE Head(cs).attempts + TotalChecks(Tail(cs))

\* C28: a page load sends at most one purchase request and starts at most
\* one polling chain, so that it makes at most 6 purchase-status checks,
\* however often the user value is set.
C28_RedirectHandledOnce ==
    /\ Len(posts) <= 1
    /\ Len(chains) <= 1
    /\ TotalChecks(chains) <= maxAttempts

\* C29: after signOut (no session, user and profile null) user and profile
\* stay null until the next sign-in; a response to a profile fetch started
\* before does not set them.
C29_SignedOutStaysNull ==
    [][( /\ session = NULL /\ session' = NULL
         /\ clientUser = Absent /\ clientProfile = Absent )
       => (clientUser' = Absent /\ clientProfile' = Absent)
      ]_vars

\* the handling of the redirect is over: the success parameters are gone
\* and no purchase request, check or reload is pending
AtRest == ~url.success /\ ~Polling /\ ~Posting /\ ~reloadTimer /\ ~reloading

\* the page has no user and nothing pending that could set one
NotSignedIn == clientUser = Absent /\ Idle

\* C27: the handling of a payment-success redirect by a signed-in client
\* eventually comes to rest, after finitely many reloads, on every branch.
C27_ComesToRest ==
    (url.success /\ clientUser # Absent) ~> (AtRest \/ NotSignedIn)

====
